---- MODULE Spec2Model ----
(***************************************************************************)
(* Model of the recovery control plane (recovery.cpp): the argument        *)
(* resolver and the bootloader control block (BCB), the log archivist,     *)
(* the wipe / install operations and the main driver with its prompt loop. *)
(* C strings are sequences of one-character strings without the NUL.       *)
(***************************************************************************)
EXTENDS Integers, Sequences, FiniteSets, TLC

(***************************************************************************)
(* Bounds of the model and program constants.                              *)
(***************************************************************************)
\* sizeof(boot.recovery), scaled down (bootloader.h gives 768).
RecoverySize == 40
\* sizeof(boot.command), scaled down but large enough for "boot-recovery".
CommandSize == 16
\* The 512 KiB cap (1 << 19) on a saved log file, scaled down to bytes.
LogCap == 2
\* Longest temporary log (/tmp/recovery.log) of one session, in records.
MaxTmpLog == 2
\* Number of boots into recovery that a behaviour follows: the first one to
\* its end, the later ones up to the return of get_args.
MaxSessions == 2
\* Iterations of the loop of prompt_and_wait that a session follows.
MaxPrompt == 2

MAX_ARG_LENGTH == 4096
MAX_ARGS == 100
KEEP_LOG_COUNT == 10

Min(a, b) == IF a < b THEN a ELSE b

(***************************************************************************)
(* libc string routines, as the code uses them.                            *)
(***************************************************************************)
NL == "\n"
CR == "\r"

\* strlcpy(dst, src, size): dst holds at most size-1 characters of src.
strlcpy(src, size) == SubSeq(src, 1, Min(Len(src), size - 1))

\* strlcat(dst, src, size): appends what still fits below size-1 characters.
strlcat(dst, src, size) ==
    IF Len(dst) >= size - 1 THEN dst
    ELSE dst \o SubSeq(src, 1, Min(Len(src), size - 1 - Len(dst)))

\* The successive results of strtok(s, delims), strtok(NULL, delims), ...:
\* the maximal non-empty runs of characters that are not delimiters.
RECURSIVE strtok_from(_, _, _, _)
strtok_from(s, i, cur, delims) ==
    IF i > Len(s)
    THEN IF cur = <<>> THEN <<>> ELSE <<cur>>
    ELSE IF s[i] \in delims
         THEN IF cur = <<>>
              THEN strtok_from(s, i + 1, <<>>, delims)
              ELSE <<cur>> \o strtok_from(s, i + 1, <<>>, delims)
         ELSE strtok_from(s, i + 1, Append(cur, s[i]), delims)

strtok(s, delims) == strtok_from(s, 1, <<>>, delims)

\* The successive results of fgets(buf, size, fp) on a file with content s:
\* each read stops after a newline or after size-1 characters.
RECURSIVE fgets_from(_, _, _)
fgets_from(s, i, size) ==
    IF i > Len(s) THEN <<>>
    ELSE LET stop == Min(Len(s), i + size - 2)
             nls  == {k \in i..stop : s[k] = NL}
             last == IF nls = {} THEN stop
                     ELSE CHOOSE k \in nls : \A m \in nls : k <= m
         IN  <<SubSeq(s, i, last)>> \o fgets_from(s, last + 1, size)

fgets(s, size) == fgets_from(s, 1, size)

\* s1 followed by a newline, s2 followed by a newline, ...
RECURSIVE JoinLines(_)
JoinLines(ss) ==
    IF ss = <<>> THEN <<>> ELSE Head(ss) \o <<NL>> \o JoinLines(Tail(ss))

(***************************************************************************)
(* String constants of recovery.cpp.                                       *)
(***************************************************************************)
S_recovery == <<"r","e","c","o","v","e","r","y">>
S_boot_recovery == <<"b","o","o","t","-","r","e","c","o","v","e","r","y">>
S_oemunlock == <<"-","-","o","e","m","u","n","l","o","c","k">>

\* The long options of OPTIONS[] with the letter getopt_long returns.
OPTIONS ==
    << [name |-> <<"s","e","n","d","_","i","n","t","e","n","t">>, has_arg |-> TRUE, val |-> "i"],
       [name |-> <<"u","p","d","a","t","e","_","p","a","c","k","a","g","e">>, has_arg |-> TRUE, val |-> "u"],
       [name |-> <<"h","e","a","d","l","e","s","s">>, has_arg |-> FALSE, val |-> "h"],
       [name |-> <<"w","i","p","e","_","d","a","t","a">>, has_arg |-> FALSE, val |-> "w"],
       [name |-> <<"w","i","p","e","_","c","a","c","h","e">>, has_arg |-> FALSE, val |-> "c"],
       [name |-> <<"w","i","p","e","_","m","e","d","i","a">>, has_arg |-> FALSE, val |-> "m"],
       [name |-> <<"s","h","o","w","_","t","e","x","t">>, has_arg |-> FALSE, val |-> "t"],
       [name |-> <<"s","i","d","e","l","o","a","d">>, has_arg |-> FALSE, val |-> "s"],
       [name |-> <<"s","i","d","e","l","o","a","d","_","a","u","t","o","_","r","e","b","o","o","t">>, has_arg |-> FALSE, val |-> "a"],
       [name |-> <<"j","u","s","t","_","e","x","i","t">>, has_arg |-> FALSE, val |-> "x"],
       [name |-> <<"l","o","c","a","l","e">>, has_arg |-> TRUE, val |-> "l"],
       [name |-> <<"s","t","a","g","e","s">>, has_arg |-> TRUE, val |-> "g"],
       [name |-> <<"s","h","u","t","d","o","w","n","_","a","f","t","e","r">>, has_arg |-> FALSE, val |-> "p"],
       [name |-> <<"r","e","a","s","o","n">>, has_arg |-> TRUE, val |-> "r"] >>

\* "--" followed by the name of the option with letter v.
Flag(v) ==
    LET o == CHOOSE k \in 1..Len(OPTIONS) : OPTIONS[k].val = v
    IN  <<"-", "-">> \o OPTIONS[o].name

\* "--name=value" for an option that takes an argument.
FlagArg(v, value) == Flag(v) \o <<"=">> \o value

(***************************************************************************)
(* getopt_long over argv[1..argc-1] as main() consumes it.                 *)
(***************************************************************************)
\* A null pointer (no string, no open file): distinct from every string.
NULL == <<"NULL">>

\* Position of the first "=" of an argument, or 0.
EqPos(a) ==
    LET eqs == {k \in 1..Len(a) : a[k] = "="}
    IN  IF eqs = {} THEN 0 ELSE CHOOSE k \in eqs : \A m \in eqs : k <= m

IsLongOpt(a) == Len(a) > 2 /\ a[1] = "-" /\ a[2] = "-"

\* The name part of "--name" or "--name=value".
OptName(a) ==
    IF EqPos(a) = 0 THEN SubSeq(a, 3, Len(a)) ELSE SubSeq(a, 3, EqPos(a) - 1)

\* Index in OPTIONS of the option an argument names, or 0.
OptIndex(a) ==
    LET hits == {k \in 1..Len(OPTIONS) : OPTIONS[k].name = OptName(a)}
    IN  IF ~IsLongOpt(a) \/ hits = {} THEN 0 ELSE CHOOSE k \in hits : TRUE

\* The locals of main() that the option loop sets, before the loop.
NoOpts ==
    [ send_intent |-> NULL, update_package |-> NULL, headless |-> FALSE,
      should_wipe_data |-> FALSE, should_wipe_cache |-> FALSE,
      should_wipe_media |-> FALSE, show_text |-> FALSE, sideload |-> FALSE,
      sideload_auto_reboot |-> FALSE, just_exit |-> FALSE, locale |-> NULL,
      shutdown_after |-> FALSE ]

\* One case of the switch on the letter getopt_long returned.
SetOpt(o, v, optarg) ==
    CASE v = "i" -> [o EXCEPT !.send_intent = optarg]
      [] v = "u" -> [o EXCEPT !.update_package = optarg]
      [] v = "h" -> [o EXCEPT !.headless = TRUE]
      [] v = "w" -> [o EXCEPT !.should_wipe_data = TRUE]
      [] v = "c" -> [o EXCEPT !.should_wipe_cache = TRUE]
      [] v = "m" -> [o EXCEPT !.should_wipe_media = TRUE]
      [] v = "t" -> [o EXCEPT !.show_text = TRUE]
      [] v = "s" -> [o EXCEPT !.sideload = TRUE]
      [] v = "a" -> [o EXCEPT !.sideload = TRUE, !.sideload_auto_reboot = TRUE]
      [] v = "x" -> [o EXCEPT !.just_exit = TRUE]
      [] v = "l" -> [o EXCEPT !.locale = optarg]
      [] v = "p" -> [o EXCEPT !.shutdown_after = TRUE]
      [] OTHER -> o

\* The option loop of main(): unknown options and non-options are skipped,
\* an option that requires an argument takes "=value" or the next word.
RECURSIVE ParseOpts(_, _, _)
ParseOpts(args, i, o) ==
    IF i > Len(args) \/ args[i] = <<"-", "-">> THEN o
    ELSE LET a == args[i]
             k == OptIndex(a)
         IN  IF k = 0 THEN ParseOpts(args, i + 1, o)
             ELSE IF OPTIONS[k].has_arg
                  THEN IF EqPos(a) > 0
                       THEN ParseOpts(args, i + 1,
                                SetOpt(o, OPTIONS[k].val, SubSeq(a, EqPos(a) + 1, Len(a))))
                       ELSE IF i < Len(args)
                            THEN ParseOpts(args, i + 2, SetOpt(o, OPTIONS[k].val, args[i + 1]))
                            ELSE o
                  ELSE IF EqPos(a) > 0
                       THEN ParseOpts(args, i + 1, o)
                       ELSE ParseOpts(args, i + 1, SetOpt(o, OPTIONS[k].val, NULL))

(***************************************************************************)
(* The bootloader control block.                                           *)
(***************************************************************************)
\* memset(&boot, 0, sizeof(boot))
ZeroBoot == [command |-> <<>>, status |-> <<>>, recovery |-> <<>>, stage |-> <<>>]

\* get_bootloader_message(&boot): on failure the zeroed structure is left.
get_bootloader_message(dev, ok) == IF ok THEN dev ELSE ZeroBoot

\* set_bootloader_message(&boot): on failure the device keeps its content.
set_bootloader_message(dev, boot, ok) == IF ok THEN boot ELSE dev

(***************************************************************************)
(* get_args                                                                *)
(***************************************************************************)
\* At most n elements of a sequence.
Take(s, n) == SubSeq(s, 1, Min(Len(s), n))

RECURSIVE DropOemUnlock(_)
DropOemUnlock(toks) ==
    IF toks = <<>> THEN <<>>
    ELSE IF Head(toks) = S_oemunlock THEN DropOemUnlock(Tail(toks))
         ELSE <<Head(toks)>> \o DropOemUnlock(Tail(toks))

\* The first strtok(buf, "\r\n") of every line fgets returned, when not NULL.
RECURSIVE LineTokens(_)
LineTokens(lines) ==
    IF lines = <<>> THEN <<>>
    ELSE LET toks == strtok(Head(lines), {CR, NL})
         IN  (IF toks = <<>> THEN <<>> ELSE <<toks[1]>>) \o LineTokens(Tail(lines))

\* A get_args that never looks in the control block.
args_from_bcb_Skip(a, have_oemlock) == a

\* The block "if arguments weren't supplied, look in the bootloader control
\* block": a holds args (argv[1..argc-1]), the boot record and oem_lock.
args_from_bcb(a, have_oemlock) ==
    IF Len(a.args) > 0 THEN a
    ELSE LET rec  == strlcpy(a.boot.recovery, RecoverySize)
             toks == strtok(rec, {NL})
         IN  IF toks # <<>> /\ toks[1] = S_recovery
             THEN LET rest == Tail(toks)
                      kept == IF have_oemlock THEN DropOemUnlock(rest) ELSE rest
                  IN  [a EXCEPT !.args = Take(kept, MAX_ARGS - 1),
                                !.oem_lock = have_oemlock /\ kept # rest,
                                !.from_bcb = TRUE]
             ELSE a

\* A get_args that reads the command file whatever the earlier sources gave.
args_from_file_Always(a, file) ==
    IF file = NULL THEN a
    ELSE [a EXCEPT !.args = Take(LineTokens(fgets(file, MAX_ARG_LENGTH)), MAX_ARGS - 1),
                   !.from_file = TRUE]

\* The block "if that doesn't work, try the command file": file is the
\* content of COMMAND_FILE, or NULL when fopen_path fails.
args_from_file_Never(a, file) == a

args_from_file(a, file) ==
    IF Len(a.args) > 0 \/ file = NULL THEN a
    ELSE [a EXCEPT !.args = Take(LineTokens(fgets(file, MAX_ARG_LENGTH)), MAX_ARGS - 1),
                   !.from_file = TRUE]

\* The block "write the arguments we have back into the bootloader control
\* block": strlcpy of the command and of "recovery\n", then one strlcat pair
\* for every argument.
RECURSIVE cat_args(_, _, _)
cat_args(rec, args, i) ==
    IF i > Len(args) THEN rec
    ELSE cat_args(strlcat(strlcat(rec, args[i], RecoverySize), <<NL>>, RecoverySize),
                  args, i + 1)

\* A write-back that leaves the arguments out of the record.
boot_for_args_NoArgs(a) ==
    [a EXCEPT !.boot.command = strlcpy(S_boot_recovery, CommandSize),
              !.boot.recovery = strlcpy(S_recovery \o <<NL>>, RecoverySize)]

boot_for_args(a) ==
    [a EXCEPT !.boot.command = strlcpy(S_boot_recovery, CommandSize),
              !.boot.recovery = cat_args(strlcpy(S_recovery \o <<NL>>, RecoverySize), a.args, 1)]

\* get_args(&argc, &argv) up to the call of set_bootloader_message: the
\* resolved arguments, the record to write, and where the arguments came from.
get_args(proc_args, boot, file, have_oemlock) ==
    boot_for_args(
        args_from_file(
            args_from_bcb([args |-> proc_args, boot |-> boot, oem_lock |-> FALSE,
                           from_bcb |-> FALSE, from_file |-> FALSE],
                          have_oemlock),
            file))

(***************************************************************************)
(* The log files under /cache/recovery and the temporary log.              *)
(***************************************************************************)
\* A file that does not exist (file contents are sequences of integers).
NoFile == <<-1>>

LAST_LOG_FILE == "last_log"
LAST_KMSG_FILE == "last_kmsg"
LOG_FILE == <<"log", 0>>
LAST_INSTALL_FILE == <<"last_install", 0>>
LOCALE_FILE == <<"last_locale", 0>>
INTENT_FILE == <<"intent", 0>>

\* base for generation 0, base.i for generation i.
Gen(base, i) == <<base, i>>

\* The files of CACHE_LOG_DIR other than the command file.
LogNames ==
    ({LAST_LOG_FILE, LAST_KMSG_FILE} \X (0..KEEP_LOG_COUNT))
        \cup {LOG_FILE, LAST_INSTALL_FILE, LOCALE_FILE, INTENT_FILE}

NoFiles == [n \in LogNames |-> NoFile]

\* strncmp(de->d_name, "last_", 5) == 0 || strcmp(de->d_name, "log") == 0
is_saved_name(n) ==
    n[1] \in {"last_log", "last_kmsg", "last_install", "last_locale"} \/ n[1] = "log"

\* The content of /tmp/recovery.log after n records of session k.
TmpLog(k, n) == [i \in 1..n |-> 10 * k + i]

\* What klogctl(KLOG_READ_ALL) yields in session k.
KernelLog(k) == <<10 * k + 9>>

\* What install_package leaves in TEMPORARY_INSTALL_FILE in session k.
InstallLog(k) == <<10 * k + 8>>

\* rename(old, new): ignored when old does not exist.
rename(f, old, new) ==
    IF f[old] = NoFile THEN f ELSE [f EXCEPT ![new] = f[old], ![old] = NoFile]

\* The loop run for 0, 1, ..., i instead.
RECURSIVE rotate_from_Ascending(_, _)
rotate_from_Ascending(f, i) ==
    IF i < 0 THEN f
    ELSE rename(rename(rotate_from_Ascending(f, i - 1),
                       Gen(LAST_LOG_FILE, i), Gen(LAST_LOG_FILE, i + 1)),
                Gen(LAST_KMSG_FILE, i), Gen(LAST_KMSG_FILE, i + 1))

\* The loop of rotate_logs for i, i-1, ..., 0.
RECURSIVE rotate_from(_, _)
rotate_from(f, i) ==
    IF i < 0 THEN f
    ELSE rotate_from(
             rename(rename(f, Gen(LAST_LOG_FILE, i), Gen(LAST_LOG_FILE, i + 1)),
                    Gen(LAST_KMSG_FILE, i), Gen(LAST_KMSG_FILE, i + 1)),
             i - 1)

\* A rotate_logs without the static flag: it rotates at every call.
rotate_logs_Always(a, max) ==
    [a EXCEPT !.rotated = TRUE, !.files = rotate_from(a.files, max - 1)]

\* A rotate_logs that does not set its static flag.
rotate_logs_ForgetsFlag(a, max) ==
    IF a.rotated THEN a ELSE [a EXCEPT !.files = rotate_from(a.files, max - 1)]

\* rotate_logs(max) on the archive state a = [files, rotated, tmplog_offset]:
\* logs are rotated only once per session.
rotate_logs(a, max) ==
    IF a.rotated THEN a
    ELSE [a EXCEPT !.rotated = TRUE, !.files = rotate_from(a.files, max - 1)]

\* copy_log_file(source, destination, append) with the temporary log as
\* source: writable tells whether fopen_path opens the destination.
copy_log_file(a, tmplog, dest, append, writable) ==
    IF ~writable THEN a
    ELSE IF append
         THEN LET old == IF a.files[dest] = NoFile THEN <<>> ELSE a.files[dest]
              IN  [a EXCEPT !.files[dest] =
                                old \o SubSeq(tmplog, a.tmplog_offset + 1, Len(tmplog)),
                            !.tmplog_offset = Len(tmplog)]
         ELSE [a EXCEPT !.files[dest] = tmplog]

\* copy_log_file(TEMPORARY_INSTALL_FILE, LAST_INSTALL_FILE, false): the
\* destination is created even when the source cannot be opened.
copy_install_file(a, tmp_install, writable) ==
    IF ~writable THEN a
    ELSE [a EXCEPT !.files[LAST_INSTALL_FILE] =
                       IF tmp_install = NoFile THEN <<>> ELSE tmp_install]

\* save_kernel_log(LAST_KMSG_FILE)
save_kernel_log(a, klog, writable) ==
    IF ~writable THEN a ELSE [a EXCEPT !.files[Gen(LAST_KMSG_FILE, 0)] = klog]

\* A copy_logs without the test of modified_flash.
copy_logs_Unguarded(a, modified_flash, tmplog, tmp_install, klog, writable) ==
    save_kernel_log(
        copy_install_file(
            copy_log_file(
                copy_log_file(rotate_logs(a, KEEP_LOG_COUNT),
                              tmplog, LOG_FILE, TRUE, writable),
                tmplog, Gen(LAST_LOG_FILE, 0), FALSE, writable),
            tmp_install, writable),
        klog, writable)

\* copy_logs(): nothing unless the session attempted to modify the flash.
copy_logs(a, modified_flash, tmplog, tmp_install, klog, writable) ==
    IF ~modified_flash THEN a
    ELSE save_kernel_log(
             copy_install_file(
                 copy_log_file(
                     copy_log_file(rotate_logs(a, KEEP_LOG_COUNT),
                                   tmplog, LOG_FILE, TRUE, writable),
                     tmplog, Gen(LAST_LOG_FILE, 0), FALSE, writable),
                 tmp_install, writable),
             klog, writable)

\* The first part of erase_volume for a non-forced erase of /cache: every
\* last_* file and the log, truncated to the cap.
save_logs(f) ==
    [n \in LogNames |->
        IF is_saved_name(n) /\ f[n] # NoFile THEN Take(f[n], LogCap) ELSE NoFile]

\* An erase_volume that writes nothing back.
restore_logs_None(f, saved, writable) == f

\* The loop of erase_volume that writes the saved files back.
restore_logs(f, saved, writable) ==
    IF ~writable THEN f
    ELSE [n \in LogNames |-> IF saved[n] # NoFile THEN saved[n] ELSE f[n]]

\* A finish_recovery that leaves the control block as it is.
finish_recovery_NoClear(d, send_intent, locale, modified_flash, tmplog, tmp_install, klog, cache_ok, misc_ok) ==
    LET d1 == IF send_intent # NULL /\ cache_ok
              THEN [d EXCEPT !.files[INTENT_FILE] = <<7>>] ELSE d
        d2 == IF locale /\ cache_ok
              THEN [d1 EXCEPT !.files[LOCALE_FILE] = <<6>>] ELSE d1
        d3 == copy_logs(d2, modified_flash, tmplog, tmp_install, klog, cache_ok)
    IN  [d3 EXCEPT !.command_file = IF cache_ok THEN NULL ELSE d3.command_file]

\* finish_recovery(send_intent) on d = [bcb, command_file, files, rotated,
\* tmplog_offset]: the intent and the locale are written, the logs copied,
\* the control block zeroed and the command file unlinked.  cache_ok tells
\* whether /cache can be mounted (nothing is written or unlinked on a volume
\* that cannot be), misc_ok whether the control block can be written.
finish_recovery(d, send_intent, locale, modified_flash, tmplog, tmp_install, klog, cache_ok, misc_ok) ==
    LET d1 == IF send_intent # NULL /\ cache_ok
              THEN [d EXCEPT !.files[INTENT_FILE] = <<7>>] ELSE d
        d2 == IF locale /\ cache_ok
              THEN [d1 EXCEPT !.files[LOCALE_FILE] = <<6>>] ELSE d1
        d3 == copy_logs(d2, modified_flash, tmplog, tmp_install, klog, cache_ok)
    IN  [d3 EXCEPT !.bcb = set_bootloader_message(d3.bcb, ZeroBoot, misc_ok),
                   !.last_write = ZeroBoot,
                   !.command_file = IF cache_ok THEN NULL ELSE d3.command_file]

\* set_sdcard_update_bootloader_message(): the record it writes.
sdcard_update_boot ==
    [ZeroBoot EXCEPT !.command = strlcpy(S_boot_recovery, CommandSize),
                     !.recovery = strlcpy(S_recovery \o <<NL>>, RecoverySize)]

\* A wipe_data that retries whenever the attempt failed, forced or not.
wipe_data_retry_Again(success, force, should_confirm, yes) ==
    ~success /\ (~should_confirm \/ yes)

\* The condition of wipe_data under which it jumps back to retry: the attempt
\* failed without force and, when confirming, the user accepted the format.
wipe_data_retry(success, force, should_confirm, yes) ==
    ~success /\ ~force /\ (~should_confirm \/ yes)

(***************************************************************************)
(* State.                                                                  *)
(***************************************************************************)
VARIABLES
    have_oemlock,   \* the build defines HAVE_OEMLOCK
    misc_ok,        \* the control block device can be read and written
    bcb,            \* the control block on the device
    command_file,   \* content of COMMAND_FILE, or NULL
    files,          \* the other files of /cache/recovery
    cache_ok,       \* /cache can be mounted
    session,        \* number of the current boot into recovery
    pc,             \* position of the main thread
    stack,          \* return positions of the calls in progress
    proc_args,      \* argv[1..argc-1] as the process received it
    args,           \* argv[1..argc-1] after get_args
    opts,           \* the locals of main() set by the option loop
    oem_lock,       \* oem_lock == OEM_LOCK_UNLOCK
    locale,         \* locale != NULL
    modified_flash,
    rotated,        \* the static flag of rotate_logs
    tmplog_offset,
    tmplog_len,     \* records in /tmp/recovery.log
    tmp_install,    \* content of TEMPORARY_INSTALL_FILE, or NoFile
    status,         \* main's and prompt_and_wait's status
    show_text,      \* ui->IsTextVisible()
    ev,             \* erase_volume: volume, force, saved files, result
    wd,             \* wipe_data: should_confirm, force, success, attempts
    ret,            \* value returned by the last call of a wipe or erase
    after,          \* the action main takes after finish_recovery
    currentIcon,    \* the background icon of the screen
    dialog_text,    \* the text of the dialog on the screen, or NoText
    dialog_show_log,
    dialog_icon,
    hist            \* history of the session, for the properties

\* The fields of ScreenRecoveryUI, the threads that use them and the locals of
\* get_menu_selection.
VARIABLES
    updateMutex,        \* "free", or the thread that holds it
    progressCondition,  \* a signal is pending for the waiting render thread
    update_waiting,
    pagesIdentical,
    progressBarType,
    progressScopeStart, \* in units of 1/PUnits, as progressScopeSize and progress
    progressScopeSize,
    progressScopeTime,
    progressScopeDuration,
    progress,
    installingFrame,
    installing_frames,
    stage,
    max_stage,
    sysbar_state,
    text_,              \* the buffer text_ points to
    text_col_,
    text_row_,
    text_top_,
    bufs,               \* the rows of the two text buffers
    show_menu,
    menu_items,
    menu_sel,
    menu_show_start_,
    header_items,
    wrap_count,
    rainbow,
    item_count,         \* get_menu_selection: its count of the items
    selected,           \* get_menu_selection: selected
    show_text_ever,     \* ui->WasTextEverVisible()
    screen,             \* what Init() computes from the frame buffer and the fonts
    ui_pc,              \* position of the main thread inside a call of the UI
    ui_op,              \* the call of the UI in progress and its arguments
    ui_calls,           \* calls of the UI made so far
    sf_old,             \* ShowFile: old_text, old_text_col, old_text_row, old_text_top
    rt_pc,              \* position of the render thread
    now,                \* the clock
    ui_hist             \* history of the UI, for the properties

vars == << have_oemlock, misc_ok, bcb, command_file, files, cache_ok, session,
           pc, stack, proc_args, args, opts, oem_lock, locale, modified_flash,
           rotated, tmplog_offset, tmplog_len, tmp_install, status, show_text,
           ev, wd, ret, after, currentIcon, dialog_text, dialog_show_log,
           dialog_icon, hist,
           updateMutex, progressCondition, update_waiting, pagesIdentical,
           progressBarType, progressScopeStart, progressScopeSize,
           progressScopeTime, progressScopeDuration, progress, installingFrame,
           installing_frames, stage, max_stage, sysbar_state, text_, text_col_,
           text_row_, text_top_, bufs, show_menu, menu_items, menu_sel,
           menu_show_start_, header_items, wrap_count, rainbow, item_count,
           selected, show_text_ever, screen, ui_pc, ui_op, ui_calls, sf_old, rt_pc, now,
           ui_hist >>

build  == << have_oemlock, misc_ok, screen >>
input  == << proc_args, args, opts, oem_lock, locale >>
disk   == << bcb, command_file, files, cache_ok >>
logst  == << rotated, tmplog_offset, tmplog_len, tmp_install >>
dlg    == << dialog_text, dialog_show_log, dialog_icon >>
scr    == << currentIcon, dlg >>

\* The fields of the screen in groups: synchronisation, progress bar, stage
\* and system bar, text, menu, and the threads.
sync     == << updateMutex, progressCondition, update_waiting, pagesIdentical >>
prog     == << progressBarType, progressScopeStart, progressScopeSize,
               progressScopeTime, progressScopeDuration, progress >>
anim     == << installingFrame, installing_frames >>
stagebar == << stage, max_stage, sysbar_state >>
cursor   == << text_col_, text_row_, text_top_ >>
textst   == << text_, cursor, bufs >>
menust   == << show_menu, menu_items, menu_sel, menu_show_start_, header_items,
               wrap_count, rainbow, item_count, selected >>
threads  == << ui_pc, ui_op, ui_calls, sf_old, rt_pc, now, ui_hist >>
ui       == << sync, prog, anim, stagebar, textst, menust, threads,
               show_text_ever >>

\* What recovery.cpp keeps, apart from the three things it shares with the
\* screen: show_text, the background and the dialog.
recovery == << build, bcb, command_file, files, cache_ok, session,
               pc, stack, proc_args, args, opts, oem_lock, locale,
               modified_flash, rotated, tmplog_offset, tmplog_len, tmp_install,
               status, ev, wd, ret, after, hist >>

\* dialog_text == NULL: no dialog is showing.
NoText == "nullptr"

\* DialogShowErrorLog(text)
DialogShowErrorLog(text) ==
    /\ dialog_text' = text
    /\ dialog_show_log' = TRUE
    /\ dialog_icon' = "D_ERROR"

\* SetHeadlessMode()
SetHeadlessMode ==
    /\ dialog_text' = ""
    /\ dialog_show_log' = FALSE
    /\ dialog_icon' = "HEADLESS"

CACHE_ROOT == "/cache"

\* One more record in the temporary log (the model stops logging at the bound).
Grow(n) == IF n < MaxTmpLog THEN n + 1 ELSE n

NoErase == [volume |-> "", force |-> FALSE, saved |-> NoFiles, result |-> FALSE]
\* wipe_data: its parameters and success, and for the properties the number
\* of passes through retry, the force it was called with, whether the first
\* pass failed and whether the user accepted the forced retry.
\* steps and oks: the steps of the pass in progress that were started and the
\* results of those that have returned.
NoWipe == [should_confirm |-> FALSE, force |-> FALSE, success |-> FALSE,
           attempts |-> 0, force0 |-> FALSE, failed1 |-> FALSE, accepted |-> FALSE,
           steps |-> <<>>, oks |-> <<>>]

\* No record was handed to set_bootloader_message yet.
NoWrite == [ZeroBoot EXCEPT !.command = NULL]

\* History of a session: what get_args read and wrote, the last record handed
\* to set_bootloader_message, the number of all-zero records written, the
\* iterations of the prompt loop, the files before the erase of /cache in
\* progress, whether the session follows one that lost power during its
\* operation and what that one had resolved, whether the operation dispatched
\* from the arguments is still to complete, whether an install from
\* storage wrote the control block again, and whether a successful install
\* asked for a wipe of /cache that erase_volume has not been called for yet.
NoHist ==
    [ boot_read |-> ZeroBoot, file_read |-> NULL, from_bcb |-> FALSE,
      from_file |-> FALSE, last_write |-> NoWrite, clears |-> 0, prompts |-> 0,
      pre_files |-> NoFiles, resumed |-> FALSE,
      prev_args |-> <<>>, in_op |-> FALSE, rearmed |-> FALSE,
      wipe_due |-> FALSE ]

(***************************************************************************)
(* Initial states: what the device holds when recovery is started.         *)
(***************************************************************************)
BootRecovery(arglist) ==
    [ZeroBoot EXCEPT !.command = S_boot_recovery,
                     !.recovery = S_recovery \o <<NL>> \o JoinLines(arglist)]

\* Arguments the process may be started with.
ProcArgsSet ==
    { <<>>,
      << Flag("c") >>,
      << Flag("w"), Flag("c"), Flag("m") >>,
      << Flag("c"), Flag("h") >>,
      << <<>>, Flag("x") >>,
      << <<"a", NL, "b">> >> }

\* Control blocks the device may hold.
BootSet ==
    { ZeroBoot,
      BootRecovery(<< Flag("w") >>),
      BootRecovery(<< S_oemunlock, Flag("c") >>),
      BootRecovery(<< FlagArg("u", <<"p">>) >>),
      BootRecovery(<< Flag("a") >>),
      BootRecovery(<< >>),
      [ZeroBoot EXCEPT !.recovery = <<"b","o","g","u","s",NL>> \o Flag("w") \o <<NL>>,
                       !.status = <<"o","k">>, !.stage = <<"1","/","2">>] }

\* Contents of the command file, or NULL for no file.
CommandFileSet ==
    { NULL,
      Flag("w") \o <<NL>> \o FlagArg("l", <<"l">>) \o <<NL>>,
      <<CR, NL>> \o Flag("c") \o <<CR, NL>> \o FlagArg("i", <<"i">>) \o <<NL>>,
      Flag("m") \o <<NL>> \o Flag("t") \o <<NL>> \o Flag("p") \o <<NL, NL>>,
      Flag("s"),
      Flag("h") \o <<NL>> }

\* Log files a former session left: a log longer than the cap, a last_log
\* and last_kmsg with older generations up to the oldest one kept.
OldFiles ==
    [n \in LogNames |->
        CASE n = LOG_FILE -> [i \in 1..(LogCap + 1) |-> 0]
          [] n = Gen(LAST_LOG_FILE, 0) -> <<1>>
          [] n = Gen(LAST_LOG_FILE, 1) -> <<2>>
          [] n = Gen(LAST_LOG_FILE, KEEP_LOG_COUNT) -> <<3>>
          [] n = Gen(LAST_KMSG_FILE, 0) -> <<4>>
          [] n = LOCALE_FILE -> <<6>>
          [] OTHER -> NoFile]

FilesSet == {NoFiles, OldFiles}

(***************************************************************************)
(* The screen after ScreenRecoveryUI() and Init().                         *)
(***************************************************************************)
\* Progress is counted in units of 1/PUnits; the bar is BarWidth pixels wide.
PUnits == 4
BarWidth == 4
\* The clock stops at MaxNow; the main thread makes at most MaxCalls calls.
MaxNow == 2
MaxCalls == 2
\* Frames of the installing animation, and the duration given to ShowProgress.
Frames == 3
ProgressSeconds == 2

\* The screen the behaviours are followed on: rows and columns of text in
\* the log font and in the menu font, and the rows the header icon takes.
LogRows == 3
LogCols == 2
MenuRows == 10
MenuCols == 2
HeaderRows == 1

SmallScreen ==
    [ log_text_rows_ |-> LogRows, log_text_cols_ |-> LogCols,
      text_rows_ |-> MenuRows, text_cols_ |-> MenuCols ]

\* The geometry Init() computes from the frame buffer and the fonts.
log_text_rows_ == screen.log_text_rows_
log_text_cols_ == screen.log_text_cols_
text_rows_ == screen.text_rows_
text_cols_ == screen.text_cols_
text_first_row_ == HeaderRows
max_menu_rows_ == (text_rows_ - text_first_row_) \div 3

Buffers == {"text", "file_viewer_text"}
BufRows(b) == IF b = "text" THEN log_text_rows_ ELSE text_rows_
\* The columns allocated: Alloc2d(rows, cols + 1).
BufCols(b) == IF b = "text" THEN log_text_cols_ + 1 ELSE text_cols_ + 1

\* Alloc2d: every row is empty.
Alloc2d == [b \in Buffers |-> [r \in 0..(BufRows(b) - 1) |-> <<>>]]

NoOp == [name |-> "none", s |-> "", n |-> 0, n2 |-> 0, then |-> "idle"]
\* ShowFile: old_text and the old cursor; the file, the position of fp and
\* its end-of-file flag; the offsets; and, for the properties, where the
\* page on the screen starts.
NoOld ==
    [ text |-> "text", col |-> 0, row |-> 0, top |-> 1,
      file |-> <<>>, pos |-> 0, eof |-> FALSE, offsets |-> <<>>, start |-> 0 ]

\* History of the UI: the rows of the log the cursor has been in since the
\* text was cleared, and for the last PrintV the line breaks it made, those
\* that moved the cursor into a row used before, and those that moved the top;
\* fits: every write to a text buffer so far was inside its allocation.
NoUiHist ==
    [used |-> {0}, breaks |-> 0, overwritten |-> 0, advanced |-> 0, fits |-> TRUE]

\* The constructor leaves update_waiting, progressScopeTime and
\* progressScopeDuration without a value: uw, time and duration are what they
\* happen to hold; frames is what the animation's bitmap holds.
UiFresh(uw, time, duration, frames) ==
    /\ updateMutex = "free"
    /\ progressCondition = FALSE
    /\ update_waiting = uw
    /\ pagesIdentical = FALSE
    /\ progressBarType = "EMPTY"
    /\ progressScopeStart = 0
    /\ progressScopeSize = 0
    /\ progressScopeTime = time
    /\ progressScopeDuration = duration
    /\ progress = 0
    /\ installingFrame = 0
    /\ installing_frames = frames
    /\ stage = -1
    /\ max_stage = -1
    /\ sysbar_state = 0
    /\ text_ = "text"
    /\ text_col_ = 0
    /\ text_row_ = 0
    /\ text_top_ = 1
    /\ bufs = Alloc2d
    /\ show_menu = FALSE
    /\ menu_items = 0
    /\ menu_sel = 0
    /\ menu_show_start_ = 0
    /\ header_items = 0
    /\ wrap_count = 0
    /\ rainbow = FALSE
    /\ item_count = 0
    /\ show_text_ever = FALSE
    /\ selected = 0
    /\ ui_pc = "idle"
    /\ ui_op = NoOp
    /\ ui_calls = 0
    /\ sf_old = NoOld
    /\ rt_pc = "lock"
    /\ now = 0
    /\ ui_hist = NoUiHist

\* The volatile state of a freshly started process.
Fresh ==
    /\ pc = "start"
    /\ stack = <<>>
    /\ args = <<>>
    /\ opts = NoOpts
    /\ oem_lock = FALSE
    /\ locale = FALSE
    /\ modified_flash = FALSE
    /\ rotated = FALSE
    /\ tmplog_offset = 0
    /\ tmplog_len = 0
    /\ tmp_install = NoFile
    /\ status = "SUCCESS"
    /\ show_text = FALSE
    /\ ev = NoErase
    /\ wd = NoWipe
    /\ ret = FALSE
    /\ after = "REBOOT"
    /\ currentIcon = "NONE"
    /\ dialog_text = NoText
    /\ dialog_show_log = FALSE
    /\ dialog_icon = "NONE"

\* One argument source is populated at the start, or the control block
\* without arguments together with a command file, or several sources at
\* once on a device without faults and without old logs.
Init ==
    /\ have_oemlock \in BOOLEAN
    /\ misc_ok \in BOOLEAN
    /\ cache_ok \in BOOLEAN
    /\ session = 1
    /\ proc_args \in ProcArgsSet
    /\ bcb \in BootSet
    /\ command_file \in CommandFileSet
    /\ files \in FilesSet
    /\ \/ proc_args = <<>> /\ bcb = ZeroBoot
       \/ proc_args = <<>> /\ command_file = NULL
       \/ bcb = ZeroBoot /\ command_file = NULL
       \/ proc_args = <<>> /\ bcb = BootRecovery(<< >>)
       \/ /\ proc_args \in {<<>>, << Flag("c") >>}
          /\ misc_ok /\ cache_ok /\ ~have_oemlock /\ files = NoFiles
    /\ cache_ok \/ (command_file = NULL /\ files = NoFiles)
    /\ misc_ok \/ bcb = ZeroBoot
    /\ hist = NoHist
    /\ Fresh
    /\ screen = SmallScreen
    /\ UiFresh(FALSE, 0, 0, Frames)

(***************************************************************************)
(* Calls and returns of the main thread.                                   *)
(***************************************************************************)
Call(entry, return_pc) == pc' = entry /\ stack' = <<return_pc>> \o stack

Return == pc' = Head(stack) /\ stack' = Tail(stack)

\* erase_volume(volume, force) is entered; return_pc is where it returns to.
EraseCall(volume, force, return_pc) ==
    /\ ev' = [NoErase EXCEPT !.volume = volume, !.force = force]
    /\ Call("ev_save", return_pc)

\* wipe_data(should_confirm, device, force) is entered.
WipeDataCall(should_confirm, force, return_pc) ==
    /\ wd' = [NoWipe EXCEPT !.should_confirm = should_confirm, !.force = force,
                            !.force0 = force]
    /\ Call(IF should_confirm THEN "wd_ask" ELSE "wd_confirm", return_pc)

(***************************************************************************)
(* main: get_args and the option loop.                                     *)
(***************************************************************************)
GetArgs ==
    /\ pc = "start"
    /\ LET boot == get_bootloader_message(bcb, misc_ok)
           file == IF cache_ok THEN command_file ELSE NULL
           r    == get_args(proc_args, boot, file, have_oemlock)
           o    == ParseOpts(r.args, 1, NoOpts)
       IN  /\ args' = r.args
           /\ opts' = o
           /\ oem_lock' = r.oem_lock
           /\ bcb' = set_bootloader_message(bcb, r.boot, misc_ok)
           /\ locale' = (o.locale # NULL \/ (cache_ok /\ files[LOCALE_FILE] # NoFile))
           /\ show_text' = o.show_text
           /\ hist' = [hist EXCEPT !.boot_read = boot, !.file_read = file,
                                   !.from_bcb = r.from_bcb, !.from_file = r.from_file,
                                   !.last_write = r.boot, !.in_op = TRUE]
    /\ tmplog_len' = 1
    /\ currentIcon' = "NONE"
    /\ pc' = IF session = 1 THEN "dispatch" ELSE "resolved"
    /\ UNCHANGED << build, ui, dlg, command_file, files, cache_ok, session, stack, proc_args,
                    modified_flash, rotated, tmplog_offset, tmp_install, status,
                    ev, wd, ret, after >>

(***************************************************************************)
(* main: the operation chosen by the arguments.                            *)
(***************************************************************************)
\* A chain that tests should_wipe_cache before should_wipe_data.
main_operation_CacheFirst(o, unlock) ==
    IF unlock THEN "oem"
    ELSE IF o.update_package # NULL THEN "install"
    ELSE IF o.should_wipe_cache THEN "wipe_cache"
    ELSE IF o.should_wipe_data THEN "wipe_data"
    ELSE IF o.should_wipe_media THEN "wipe_media"
    ELSE IF o.sideload THEN "sideload"
    ELSE IF ~o.just_exit THEN "none"
    ELSE "just_exit"

\* The if / else if chain of main: the branch taken for the options o, unlock
\* telling whether the build has the OEM lock and an unlock was asked for.
main_operation(o, unlock) ==
    IF unlock THEN "oem"
    ELSE IF o.update_package # NULL THEN "install"
    ELSE IF o.should_wipe_data THEN "wipe_data"
    ELSE IF o.should_wipe_cache THEN "wipe_cache"
    ELSE IF o.should_wipe_media THEN "wipe_media"
    ELSE IF o.sideload THEN "sideload"
    ELSE IF ~o.just_exit THEN "none"
    ELSE "just_exit"

\* main is at the chain and takes the branch op.
Chosen(op) ==
    pc = "dispatch" /\ main_operation(opts, have_oemlock /\ oem_lock) = op

\* if (oem_lock == OEM_LOCK_UNLOCK): PreWipeData, then erase_volume("/data", true)
DispatchOem ==
    /\ Chosen("oem")
    /\ EraseCall("/data", TRUE, "m_oem_data")
    /\ UNCHANGED << build, ui, scr, disk, session, input, modified_flash, logst, status,
                    show_text, wd, ret, after, hist >>

\* if (should_wipe_cache && erase_volume("/cache", true))
MainOemData ==
    /\ pc = "m_oem_data"
    /\ IF opts.should_wipe_cache
       THEN EraseCall(CACHE_ROOT, TRUE, "m_oem_end")
       ELSE pc' = "m_oem_end" /\ UNCHANGED << stack, ev >>
    /\ UNCHANGED << build, ui, scr, disk, session, input, modified_flash, logst, status,
                    show_text, wd, ret, after, hist >>

\* PostWipeData, oemlock_set(0), "Force reboot regardless of actual status".
MainOemEnd ==
    /\ pc = "m_oem_end"
    /\ status' = "SUCCESS"
    /\ pc' = "m_post"
    /\ UNCHANGED << build, ui, scr, disk, session, stack, input, modified_flash, logst,
                    show_text, ev, wd, ret, after, hist >>

\* install_package and start_sideload (install.cpp and adb_install.cpp) mark
\* the flash as modified before anything else.
InstallStarts == modified_flash' = TRUE

\* else if (update_package != NULL): install_package is entered; it marks the
\* flash as modified before it does anything else.
DispatchInstall ==
    /\ Chosen("install")
    /\ InstallStarts
    /\ pc' = "m_installing"
    /\ UNCHANGED << build, ui, scr, disk, session, stack, input, logst, status, show_text,
                    ev, wd, ret, after, hist >>

InstallResults == {"SUCCESS", "ERROR", "CORRUPT"}

\* install_package returns: status, *wipe_cache and the install log; then the
\* cache wipe the package asked for, or the text is shown on a debuggable build.
MainInstallEnd ==
    /\ pc = "m_installing"
    /\ \E st \in InstallResults, wc \in BOOLEAN, debuggable \in BOOLEAN :
         /\ status' = st
         /\ opts' = [opts EXCEPT !.should_wipe_cache = wc]
         /\ show_text' = (show_text \/ (st # "SUCCESS" /\ debuggable))
         /\ hist' = [hist EXCEPT !.wipe_due = (st = "SUCCESS" /\ wc)]
         /\ IF st = "SUCCESS" /\ wc
            THEN Call("wc_go", "m_post")
            ELSE pc' = "m_post" /\ UNCHANGED stack
    /\ tmp_install' = InstallLog(session)
    /\ UNCHANGED << build, ui, scr, disk, session, proc_args, args, oem_lock, locale,
                    modified_flash, rotated, tmplog_offset, tmplog_len, ev, wd, ret,
                    after >>

\* else if (should_wipe_data): wipe_data(false, device, should_wipe_media)
DispatchWipeData ==
    /\ Chosen("wipe_data")
    /\ WipeDataCall(FALSE, opts.should_wipe_media, "m_wipe_done")
    /\ UNCHANGED << build, ui, scr, disk, session, input, modified_flash, logst, status,
                    show_text, ev, ret, after, hist >>

\* else if (should_wipe_cache): wipe_cache(false, device)
DispatchWipeCache ==
    /\ Chosen("wipe_cache")
    /\ Call("wc_go", "m_wipe_done")
    /\ UNCHANGED << build, ui, scr, disk, session, input, modified_flash, logst, status,
                    show_text, ev, wd, ret, after, hist >>

\* else if (should_wipe_media): wipe_media(false, device)
DispatchWipeMedia ==
    /\ Chosen("wipe_media")
    /\ Call("wm_go", "m_wipe_done")
    /\ UNCHANGED << build, ui, scr, disk, session, input, modified_flash, logst, status,
                    show_text, ev, wd, ret, after, hist >>

\* else if (sideload): the text is shown unless auto-reboot was asked for;
\* start_sideload marks the flash as modified.
DispatchSideload ==
    /\ Chosen("sideload")
    /\ show_text' = (show_text \/ ~opts.sideload_auto_reboot)
    /\ InstallStarts
    /\ pc' = "m_sideloading"
    /\ UNCHANGED << build, ui, scr, disk, session, stack, input, logst, status, ev, wd, ret,
                    after, hist >>

\* wait_sideload returns; wipe_cache when the package asked for it.
MainSideloadEnd ==
    /\ pc = "m_sideloading"
    /\ \E st \in InstallResults, wc \in BOOLEAN :
         /\ status' = st
         /\ opts' = [opts EXCEPT !.should_wipe_cache = wc]
         /\ hist' = [hist EXCEPT !.wipe_due = (st = "SUCCESS" /\ wc)]
         /\ IF st = "SUCCESS" /\ wc
            THEN Call("wc_go", "m_wipe_done")
            ELSE pc' = "m_post" /\ UNCHANGED stack
    /\ tmp_install' = InstallLog(session)
    /\ UNCHANGED << build, ui, scr, disk, session, proc_args, args, oem_lock, locale,
                    modified_flash, rotated, tmplog_offset, tmplog_len, show_text,
                    ev, wd, ret, after >>

\* else if (!just_exit): no command, the menu is always shown.
DispatchNone ==
    /\ Chosen("none")
    /\ status' = "NONE"
    /\ show_text' = TRUE
    /\ currentIcon' = "NO_COMMAND"
    /\ pc' = "m_post"
    /\ UNCHANGED << build, ui, dlg, disk, session, stack, input, modified_flash, logst, ev,
                    wd, ret, after, hist >>

\* --just_exit and nothing else to do.
DispatchJustExit ==
    /\ Chosen("just_exit")
    /\ pc' = "m_post"
    /\ UNCHANGED << build, ui, scr, disk, session, stack, input, modified_flash, logst,
                    status, show_text, ev, wd, ret, after, hist >>

\* if (!wipe_xxx(false, device)) status = INSTALL_ERROR;
MainWipeDone ==
    /\ pc = "m_wipe_done"
    /\ status' = IF ret THEN status ELSE "ERROR"
    /\ ret' = FALSE
    /\ pc' = "m_post"
    /\ UNCHANGED << build, ui, scr, disk, session, stack, input, modified_flash, logst,
                    show_text, ev, wd, after, hist >>

(***************************************************************************)
(* erase_volume                                                            *)
(***************************************************************************)
SavesLogs == ~ev.force /\ ev.volume = CACHE_ROOT

\* update_screen_locked(): update_waiting = true; pthread_cond_signal(...)
update_screen_locked ==
    /\ update_waiting' = TRUE
    /\ progressCondition' = (progressCondition \/ rt_pc = "wait")

\* A call that returns without update_screen_locked().
no_update == UNCHANGED << update_waiting, progressCondition >>

\* SetProgressType(type) with the lock held.
SetProgressType(type) ==
    /\ progressBarType' = type
    /\ progressScopeStart' = 0
    /\ progressScopeSize' = 0
    /\ progress' = 0
    /\ update_screen_locked
    /\ UNCHANGED << progressScopeTime, progressScopeDuration >>

\* What of the screen SetBackground and SetProgressType leave alone.
ErasingFrame ==
    << updateMutex, pagesIdentical, anim, stagebar, textst, menust, threads,
       show_text_ever >>

\* return (result == 0); result holds whether format_volume returned 0.
erase_volume_result_IfCacheMounts(result, mounts) == result /\ mounts
erase_volume_result(result, mounts) == result

\* "Formatting ..." is printed; for a non-forced erase of /cache the logs are
\* loaded into memory first (nothing is found when /cache cannot be mounted).
EraseSave ==
    /\ pc = "ev_save"
    /\ ev' = [ev EXCEPT !.saved = IF SavesLogs /\ cache_ok THEN save_logs(files)
                                  ELSE NoFiles]
    /\ hist' = [hist EXCEPT !.pre_files = files]
    /\ tmplog_len' = Grow(tmplog_len)
    /\ currentIcon' = "ERASING"
    /\ SetProgressType("INDETERMINATE")
    /\ pc' = "ev_format"
    /\ UNCHANGED << build, ErasingFrame, dlg, disk, session, stack, input, modified_flash,
                    rotated, tmplog_offset, tmp_install, status, show_text, wd, ret, after >>

\* format_volume(volume, force): it succeeds and leaves an empty volume, or it
\* fails and leaves the volume as it was, or it fails and leaves a volume that
\* cannot be mounted.
EraseFormat ==
    /\ pc = "ev_format"
    /\ \E r \in {"ok", "failed", "broken"} :
         /\ ev' = [ev EXCEPT !.result = (r = "ok")]
         /\ IF ev.volume = CACHE_ROOT /\ r # "failed"
            THEN /\ files' = NoFiles
                 /\ command_file' = NULL
                 /\ cache_ok' = (r = "ok")
            ELSE UNCHANGED << files, command_file, cache_ok >>
    /\ hist' = [hist EXCEPT !.wipe_due = (@ /\ ev.volume # CACHE_ROOT)]
    /\ pc' = "ev_restore"
    /\ UNCHANGED << build, ui, scr, bcb, session, stack, input, modified_flash, logst, status,
                    show_text, wd, ret, after >>

\* The saved logs are written back, tmplog_offset is reset and copy_logs is
\* called (non-forced erase of /cache only); erase_volume returns result == 0.
EraseRestore ==
    /\ pc = "ev_restore"
    /\ IF SavesLogs
       THEN LET a  == copy_logs([files |-> restore_logs(files, ev.saved, cache_ok),
                                 rotated |-> rotated, tmplog_offset |-> 0],
                                modified_flash, TmpLog(session, tmplog_len), tmp_install,
                                KernelLog(session), cache_ok)
            IN  /\ files' = a.files
                /\ rotated' = a.rotated
                /\ tmplog_offset' = a.tmplog_offset
       ELSE UNCHANGED << files, rotated, tmplog_offset >>
    /\ hist' = [hist EXCEPT !.pre_files = NoFiles]
    /\ ret' = erase_volume_result(ev.result, cache_ok)
    /\ ev' = NoErase
    /\ currentIcon' = "NONE"
    /\ SetProgressType("EMPTY")
    /\ Return
    /\ UNCHANGED << build, ErasingFrame, dlg, bcb, command_file, cache_ok, session, input,
                    modified_flash, tmplog_len, tmp_install, status, show_text, wd, after >>

(***************************************************************************)
(* wipe_data                                                               *)
(***************************************************************************)
\* What get_menu_selection gives yes_no: the index of " No" (also when the
\* key wait is abandoned) or of " Yes", or one of the negative codes
\* Device::kGoBack, kGoHome, kRefresh, kNoAction.
YesNoResults == -4 .. 1

\* return (chosen_item == 1);
yes_no(chosen_item) == chosen_item = 1

\* The question a wipe function asks before it does anything: yes_no(...).
YesNo ==
    /\ pc \in {"wd_ask", "wc_ask", "ws_ask"}
    /\ \E chosen_item \in YesNoResults : ret' = yes_no(chosen_item)
    /\ pc' = CASE pc = "wd_ask" -> "wd_confirm"
              [] pc = "wc_ask" -> "wc_confirm"
              [] pc = "ws_ask" -> "ws_confirm"
    /\ UNCHANGED << build, ui, scr, disk, session, stack, input, modified_flash, logst,
                    status, show_text, ev, wd, after, hist >>

\* if (should_confirm && !yes_no(...)) return false;
wipe_declined_Never(should_confirm, yes) == FALSE
wipe_declined(should_confirm, yes) == should_confirm /\ ~yes

\* if (should_confirm && !yes_no(...)) return false; modified_flash = true;
WipeDataConfirm ==
    /\ pc = "wd_confirm"
    /\ IF wipe_declined(wd.should_confirm, ret)
       THEN /\ ret' = FALSE
            /\ wd' = NoWipe
            /\ Return
            /\ UNCHANGED modified_flash
       ELSE /\ modified_flash' = TRUE
            /\ wd' = [wd EXCEPT !.attempts = 1]
            /\ pc' = "wd_pre"
            /\ UNCHANGED << stack, ret >>
    /\ UNCHANGED << build, ui, scr, disk, session, input, logst, status, show_text, ev, after,
                    hist >>

\* a && b: b is evaluated when a is true.
wipe_step_runs_Always(ok) == TRUE
wipe_step_runs(ok) == ok

\* retry: device->PreWipeData() && erase_volume("/data", force) && ...
WipeDataPre ==
    /\ pc = "wd_pre"
    /\ \E ok \in BOOLEAN :
         IF wipe_step_runs(ok)
         THEN /\ EraseCall("/data", wd.force, "wd_data")
              /\ wd' = [wd EXCEPT !.steps = <<"pre", "data">>, !.oks = <<ok>>]
         ELSE /\ wd' = [wd EXCEPT !.success = FALSE, !.steps = <<"pre">>,
                                  !.oks = <<ok>>]
              /\ pc' = "wd_check"
              /\ UNCHANGED << stack, ev >>
    /\ UNCHANGED << build, ui, scr, disk, session, input, modified_flash, logst, status,
                    show_text, ret, after, hist >>

\* ... && erase_volume("/cache") && ...
WipeDataData ==
    /\ pc = "wd_data"
    /\ IF wipe_step_runs(ret)
       THEN /\ EraseCall(CACHE_ROOT, FALSE, "wd_cache")
            /\ wd' = [wd EXCEPT !.steps = Append(@, "cache"), !.oks = Append(@, ret)]
       ELSE /\ wd' = [wd EXCEPT !.success = FALSE, !.oks = Append(@, ret)]
            /\ pc' = "wd_check"
            /\ UNCHANGED << stack, ev >>
    /\ UNCHANGED << build, ui, scr, disk, session, input, modified_flash, logst, status,
                    show_text, ret, after, hist >>

\* ... && device->PostWipeData();
WipeDataCache ==
    /\ pc = "wd_cache"
    /\ IF wipe_step_runs(ret)
       THEN \E ok \in BOOLEAN :
               wd' = [wd EXCEPT !.success = ok, !.steps = Append(@, "post"),
                                !.oks = @ \o << ret, ok >>]
       ELSE wd' = [wd EXCEPT !.success = FALSE, !.oks = Append(@, ret)]
    /\ pc' = "wd_check"
    /\ UNCHANGED << build, ui, scr, disk, session, stack, input, modified_flash, logst,
                    status, show_text, ev, ret, after, hist >>

\* if (!success && !force) { if (!should_confirm || yes_no(...)) { force = true;
\* goto retry; } }  return success;
WipeDataCheck ==
    /\ pc = "wd_check"
    /\ \E yes \in BOOLEAN :
         IF wipe_data_retry(wd.success, wd.force, wd.should_confirm, yes)
         THEN /\ wd' = [wd EXCEPT !.force = TRUE, !.attempts = @ + 1,
                                  !.failed1 = ~wd.success,
                                  !.accepted = (wd.should_confirm /\ yes)]
              /\ pc' = "wd_pre"
              /\ UNCHANGED << stack, ret >>
         ELSE /\ ret' = wd.success
              /\ wd' = NoWipe
              /\ Return
    /\ UNCHANGED << build, ui, scr, disk, session, input, modified_flash, logst, status,
                    show_text, ev, after, hist >>

(***************************************************************************)
(* wipe_cache, wipe_media, wipe_system                                     *)
(***************************************************************************)
\* wipe_cache(true, device): if (should_confirm && !yes_no(...)) return false;
WipeCacheConfirm ==
    /\ pc = "wc_confirm"
    /\ IF wipe_declined(TRUE, ret)
       THEN ret' = FALSE /\ Return
       ELSE pc' = "wc_go" /\ UNCHANGED << stack, ret >>
    /\ UNCHANGED << build, ui, scr, disk, session, input, modified_flash, logst, status,
                    show_text, ev, wd, after, hist >>

\* modified_flash = true; success = erase_volume("/cache"); return success;
WipeCacheGo ==
    /\ pc = "wc_go"
    /\ modified_flash' = TRUE
    /\ ev' = [NoErase EXCEPT !.volume = CACHE_ROOT]
    /\ pc' = "ev_save"
    /\ UNCHANGED << build, ui, scr, disk, session, stack, input, logst, status, show_text, wd,
                    ret, after, hist >>

\* wipe_media(false, device), its only call: no question is asked.
\* modified_flash = true; device->PreWipeMedia() && erase_volume("media") && ...
WipeMediaGo ==
    /\ pc = "wm_go"
    /\ modified_flash' = TRUE
    /\ \E ok \in BOOLEAN :
         IF ok
         THEN EraseCall("media", FALSE, "wm_post") /\ UNCHANGED ret
         ELSE ret' = FALSE /\ Return /\ UNCHANGED ev
    /\ UNCHANGED << build, ui, scr, disk, session, input, logst, status, show_text, wd, after,
                    hist >>

\* ... && device->PostWipeMedia(); return success;
WipeMediaPost ==
    /\ pc = "wm_post"
    /\ \E ok \in BOOLEAN : ret' = (ret /\ ok)
    /\ Return
    /\ UNCHANGED << build, ui, scr, disk, session, input, modified_flash, logst, status,
                    show_text, ev, wd, after, hist >>

\* wipe_system(device): it always asks; modified_flash = true;
\* erase_volume("/system")
WipeSystem ==
    /\ pc = "ws_confirm"
    /\ IF wipe_declined(TRUE, ret)
       THEN /\ ret' = FALSE
            /\ Return
            /\ UNCHANGED << modified_flash, ev >>
       ELSE /\ modified_flash' = TRUE
            /\ ev' = [NoErase EXCEPT !.volume = "/system"]
            /\ pc' = "ev_save"
            /\ UNCHANGED << stack, ret >>
    /\ UNCHANGED << build, ui, scr, disk, session, input, logst, status, show_text, wd, after,
                    hist >>

(***************************************************************************)
(* main after the operation, finish_recovery and the prompt.               *)
(***************************************************************************)
Failed(st) == st \in {"ERROR", "CORRUPT"}

\* A main that never calls prompt_and_wait.
main_after_operation_NoPrompt(o, st, text) ==
    IF o.headless THEN "m_headless" ELSE "m_finish"

\* if (headless) ... else if ((status != INSTALL_SUCCESS &&
\* !sideload_auto_reboot) || ui->IsTextVisible()) prompt_and_wait(...);
\* finish_recovery(send_intent): where main goes after its operation.
main_after_operation(o, st, text) ==
    IF o.headless THEN "m_headless"
    ELSE IF (st # "SUCCESS" /\ ~o.sideload_auto_reboot) \/ text THEN "p_finish"
         ELSE "m_finish"

\* if (!sideload_auto_reboot && (status == INSTALL_ERROR || ...)) { copy_logs();
\* ui->SetBackground(D_ERROR); }  after = shutdown_after ? SHUTDOWN : REBOOT;
\* then headless mode, or the prompt, or straight to finish_recovery.
MainPost ==
    /\ pc = "m_post"
    /\ LET a == IF ~opts.sideload_auto_reboot /\ Failed(status)
                THEN copy_logs([files |-> files, rotated |-> rotated,
                                tmplog_offset |-> tmplog_offset],
                               modified_flash, TmpLog(session, tmplog_len), tmp_install,
                               KernelLog(session), cache_ok)
                ELSE [files |-> files, rotated |-> rotated,
                      tmplog_offset |-> tmplog_offset]
       IN  /\ files' = a.files
           /\ rotated' = a.rotated
           /\ tmplog_offset' = a.tmplog_offset
    /\ currentIcon' = IF ~opts.sideload_auto_reboot /\ Failed(status)
                      THEN "D_ERROR" ELSE currentIcon
    /\ pc' = main_after_operation(opts, status, show_text)
    /\ after' = IF opts.shutdown_after THEN "SHUTDOWN" ELSE "REBOOT"
    /\ hist' = [hist EXCEPT !.in_op = FALSE]
    /\ ret' = FALSE
    /\ UNCHANGED << build, ui, dlg, bcb, command_file, cache_ok, session, stack, input,
                    modified_flash, tmplog_len, tmp_install, status, show_text, ev,
                    wd >>

\* finish_recovery(send_intent) runs to its end and main continues at next_pc.
FinishDone(send_intent, next_pc) ==
    LET len == IF locale THEN Grow(tmplog_len) ELSE tmplog_len
        d   == finish_recovery(
                   [bcb |-> bcb, last_write |-> hist.last_write,
                    command_file |-> command_file, files |-> files,
                    rotated |-> rotated, tmplog_offset |-> tmplog_offset],
                   send_intent, locale, modified_flash, TmpLog(session, len),
                   tmp_install, KernelLog(session), cache_ok, misc_ok)
    IN  /\ bcb' = d.bcb
        /\ command_file' = d.command_file
        /\ files' = d.files
        /\ rotated' = d.rotated
        /\ tmplog_offset' = d.tmplog_offset
        /\ tmplog_len' = len
        /\ hist' = [hist EXCEPT
                       !.last_write = d.last_write,
                       !.clears = IF d.last_write = ZeroBoot THEN @ + 1 ELSE @,
                       !.prompts = IF next_pc = "p_menu" THEN @ + 1 ELSE @,
                       !.wipe_due = FALSE]
        /\ pc' = next_pc

\* A call of finish_recovery(send_intent).  With a locale and a /cache that
\* cannot be mounted, fopen_path returns NULL and fwrite, fflush and fileno are
\* called on it: the process ends there, or the calls fail and it goes on.
Finish(send_intent, next_pc) ==
    \/ FinishDone(send_intent, next_pc)
    \/ /\ locale /\ ~cache_ok
       /\ pc' = "crashed"
       /\ UNCHANGED << bcb, command_file, files, rotated, tmplog_offset,
                       tmplog_len, hist >>

\* if (headless) { ShowText(true); SetHeadlessMode(); finish_recovery(NULL);
\* for (;;) pause(); }
MainHeadless ==
    /\ pc = "m_headless"
    /\ show_text' = TRUE
    /\ SetHeadlessMode
    /\ Finish(NULL, "paused")
    /\ UNCHANGED << build, ui, currentIcon, cache_ok, session, stack, input, modified_flash,
                    tmp_install, status, ev, wd, ret, after >>

\* A prompt_and_wait that does not call finish_recovery in its loop.
PromptFinish_Skip ==
    /\ pc = "p_finish"
    /\ pc' = "p_menu"
    /\ hist' = [hist EXCEPT !.prompts = @ + 1, !.wipe_due = FALSE]
    /\ ret' = FALSE
    /\ currentIcon' = IF pc' = "crashed" THEN currentIcon
                      ELSE IF Failed(status) THEN "D_ERROR" ELSE "NONE"
    /\ UNCHANGED << build, ui, dlg, disk, session, stack, input, modified_flash, logst,
                    status, show_text, ev, wd, after >>

\* prompt_and_wait: finish_recovery(NULL) at the head of every iteration, then
\* the background that goes with the status.
PromptFinish ==
    /\ pc = "p_finish"
    /\ Finish(NULL, "p_menu")
    /\ ret' = FALSE
    /\ currentIcon' = IF pc' = "crashed" THEN currentIcon
                      ELSE IF Failed(status) THEN "D_ERROR" ELSE "NONE"
    /\ UNCHANGED << build, ui, dlg, cache_ok, session, stack, input, modified_flash,
                    tmp_install, status, show_text, ev, wd, after >>

\* The user may have toggled the text display while the menu waited.
MenuShown == \E t \in BOOLEAN : show_text' = t

MorePrompts == hist.prompts < MaxPrompt

\* NO_ACTION or MOUNT_SYSTEM: back to the head of the loop.
PromptNoAction ==
    /\ pc = "p_menu" /\ MorePrompts
    /\ MenuShown
    /\ pc' = "p_finish"
    /\ UNCHANGED << build, ui, scr, disk, session, stack, input, modified_flash, logst,
                    status, ev, wd, ret, after, hist >>

\* VIEW_RECOVERY_LOGS: choose_recovery_file only reads the logs.
PromptViewLogs ==
    /\ pc = "p_menu" /\ MorePrompts
    /\ UNCHANGED show_text
    /\ pc' = "p_finish"
    /\ UNCHANGED << build, ui, scr, disk, session, stack, input, modified_flash, logst,
                    status, ev, wd, ret, after, hist >>

\* REBOOT, SHUTDOWN, REBOOT_RECOVERY, REBOOT_BOOTLOADER: return chosen_action.
PromptReboot ==
    /\ pc = "p_menu"
    /\ MenuShown
    /\ \E a \in {"REBOOT", "SHUTDOWN", "REBOOT_RECOVERY", "REBOOT_BOOTLOADER"} :
         after' = a
    /\ pc' = "m_finish"
    /\ UNCHANGED << build, ui, scr, disk, session, stack, input, modified_flash, logst,
                    status, ev, wd, ret, hist >>

\* WIPE_DATA and WIPE_FULL: wipe_data(ui->IsTextVisible(), device[, true])
PromptWipeData ==
    /\ pc = "p_menu" /\ MorePrompts
    /\ MenuShown
    /\ \E full \in BOOLEAN : WipeDataCall(show_text', full, "p_wiped")
    /\ UNCHANGED << build, ui, scr, disk, session, input, modified_flash, logst, status, ev,
                    ret, after, hist >>

\* WIPE_CACHE: wipe_cache(ui->IsTextVisible(), device)
PromptWipeCache ==
    /\ pc = "p_menu" /\ MorePrompts
    /\ MenuShown
    /\ Call(IF show_text' THEN "wc_ask" ELSE "wc_go", "p_wiped")
    /\ UNCHANGED << build, ui, scr, disk, session, input, modified_flash, logst, status, ev,
                    wd, ret, after, hist >>

\* if (!ui->IsTextVisible()) return Device::NO_ACTION; break;
PromptWiped ==
    /\ pc = "p_wiped"
    /\ pc' = IF show_text THEN "p_finish" ELSE "m_finish"
    /\ ret' = FALSE
    /\ UNCHANGED << build, ui, scr, disk, session, stack, input, modified_flash, logst,
                    status, show_text, ev, wd, after, hist >>

\* WIPE_SYSTEM: wipe_system(device); break;
PromptWipeSystem ==
    /\ pc = "p_menu" /\ MorePrompts
    /\ MenuShown
    /\ Call("ws_ask", "p_finish")
    /\ UNCHANGED << build, ui, scr, disk, session, input, modified_flash, logst, status, ev,
                    wd, ret, after, hist >>

\* APPLY_UPDATE, show_apply_update_menu left by back or home: INSTALL_NONE.
PromptApplyNone ==
    /\ pc = "p_menu" /\ MorePrompts
    /\ MenuShown
    /\ status' = "NONE"
    /\ pc' = "p_apply_end"
    /\ UNCHANGED << build, ui, scr, disk, session, stack, input, modified_flash, logst, ev,
                    wd, ret, after, hist >>

\* APPLY_UPDATE, "Apply from ADB": start_sideload marks the flash as modified.
PromptApplySideload ==
    /\ pc = "p_menu" /\ MorePrompts
    /\ MenuShown
    /\ InstallStarts
    /\ pc' = "p_installing"
    /\ UNCHANGED << build, ui, scr, disk, session, stack, input, logst, status, ev, wd, ret,
                    after, hist >>

\* APPLY_UPDATE, "Choose from <volume>": apply_from_storage up to the call of
\* install_package: the volume cannot be mounted, or no package is chosen, or
\* set_sdcard_update_bootloader_message is called and the install starts.
\* show_apply_update_menu shows the error dialog for a status other than
\* INSTALL_SUCCESS and INSTALL_NONE.
PromptApplyStorage ==
    /\ pc = "p_menu" /\ MorePrompts
    /\ MenuShown
    /\ modified_flash' = TRUE
    /\ \E o \in {"mount_failed", "no_package", "install"} :
         IF o = "install"
         THEN /\ bcb' = set_bootloader_message(bcb, sdcard_update_boot, misc_ok)
              /\ hist' = [hist EXCEPT !.last_write = sdcard_update_boot,
                                      !.rearmed = TRUE]
              /\ currentIcon' = "INSTALLING_UPDATE"
              /\ pc' = "p_installing"
              /\ UNCHANGED << status, dlg >>
         ELSE /\ status' = IF o = "no_package" THEN "NONE" ELSE "ERROR"
              /\ pc' = "p_apply_end"
              /\ IF o = "mount_failed"
                 THEN DialogShowErrorLog("Install failed")
                 ELSE UNCHANGED dlg
              /\ UNCHANGED << bcb, hist, currentIcon >>
    /\ UNCHANGED << build, ui, command_file, files, cache_ok, session, stack, input,
                    logst, ev, wd, ret, after >>

\* install_package or wait_sideload returns: status, and *wipe_cache in the
\* local of show_apply_update_menu, which nothing reads afterwards; then
\* if (status != INSTALL_SUCCESS && status != INSTALL_NONE)
\* ui->DialogShowErrorLog("Install failed");
PromptInstallEnd ==
    /\ pc = "p_installing"
    /\ \E st \in InstallResults, wc \in BOOLEAN :
         /\ status' = st
         /\ hist' = [hist EXCEPT !.wipe_due = (st = "SUCCESS" /\ wc)]
         /\ IF Failed(st) THEN DialogShowErrorLog("Install failed")
            ELSE UNCHANGED dlg
    /\ tmp_install' = InstallLog(session)
    /\ pc' = "p_apply_end"
    /\ UNCHANGED << build, ui, currentIcon, disk, session, stack, input, modified_flash, rotated,
                    tmplog_offset, tmplog_len, show_text, ev, wd, ret, after >>

\* The rest of case APPLY_UPDATE: should_wipe_cache is false here; a failed
\* install copies the logs, a good one returns when the text is not visible.
PromptApplyEnd ==
    /\ pc = "p_apply_end"
    /\ LET a == IF Failed(status)
                THEN copy_logs([files |-> files, rotated |-> rotated,
                                tmplog_offset |-> tmplog_offset],
                               modified_flash, TmpLog(session, tmplog_len), tmp_install,
                               KernelLog(session), cache_ok)
                ELSE [files |-> files, rotated |-> rotated,
                      tmplog_offset |-> tmplog_offset]
       IN  /\ files' = a.files
           /\ rotated' = a.rotated
           /\ tmplog_offset' = a.tmplog_offset
    /\ currentIcon' = IF Failed(status) THEN "D_ERROR" ELSE currentIcon
    /\ pc' = IF status = "SUCCESS" /\ ~show_text THEN "m_finish" ELSE "p_finish"
    /\ UNCHANGED << build, ui, dlg, bcb, command_file, cache_ok, session, stack, input,
                    modified_flash, tmplog_len, tmp_install, status, show_text, ev,
                    wd, ret, after, hist >>

\* finish_recovery(send_intent), then the reboot or shutdown is requested.
MainFinish ==
    /\ pc = "m_finish"
    /\ Finish(opts.send_intent, "reboot")
    /\ UNCHANGED << build, ui, scr, cache_ok, session, stack, input, modified_flash,
                    tmp_install, status, show_text, ev, wd, ret, after >>

(***************************************************************************)
(* Starting over: power loss, a crash, the reboot.                         *)
(***************************************************************************)
\* A new recovery process, started without arguments.
NewSession(resumed) ==
    /\ session' = session + 1
    /\ proc_args' = <<>>
    /\ hist' = [NoHist EXCEPT !.resumed = resumed, !.prev_args = args]
    /\ pc' = "start"
    /\ stack' = <<>>
    /\ args' = <<>>
    /\ opts' = NoOpts
    /\ oem_lock' = FALSE
    /\ locale' = FALSE
    /\ modified_flash' = FALSE
    /\ rotated' = FALSE
    /\ tmplog_offset' = 0
    /\ tmplog_len' = 0
    /\ tmp_install' = NoFile
    /\ status' = "SUCCESS"
    /\ show_text' = FALSE
    /\ ev' = NoErase
    /\ wd' = NoWipe
    /\ ret' = FALSE
    /\ after' = "REBOOT"
    /\ currentIcon' = "NONE"
    /\ dialog_text' = NoText
    /\ dialog_show_log' = FALSE
    /\ dialog_icon' = "NONE"
    /\ UNCHANGED << build, ui, disk >>

\* Power is lost while the operation dispatched from the arguments is in
\* progress (after get_args returned), or the process has ended in
\* finish_recovery: the device starts recovery again.
PowerLoss ==
    /\ hist.in_op \/ pc = "crashed"
    /\ session < MaxSessions
    /\ NewSession(hist.in_op)

\* The reboot main asked for leads to recovery again when the control block
\* says so or when the user chose to reboot to recovery.
NextBoot ==
    /\ pc = "reboot"
    /\ bcb.command = S_boot_recovery \/ after = "REBOOT_RECOVERY"
    /\ session < MaxSessions
    /\ NewSession(FALSE)

Next ==
    \/ GetArgs
    \/ DispatchOem \/ MainOemData \/ MainOemEnd
    \/ DispatchInstall \/ MainInstallEnd
    \/ DispatchWipeData \/ DispatchWipeCache \/ DispatchWipeMedia
    \/ DispatchSideload \/ MainSideloadEnd
    \/ DispatchNone \/ DispatchJustExit
    \/ MainWipeDone
    \/ EraseSave \/ EraseFormat \/ EraseRestore
    \/ YesNo
    \/ WipeDataConfirm \/ WipeDataPre \/ WipeDataData \/ WipeDataCache \/ WipeDataCheck
    \/ WipeCacheConfirm \/ WipeCacheGo
    \/ WipeMediaGo \/ WipeMediaPost
    \/ WipeSystem
    \/ MainPost \/ MainHeadless
    \/ PromptFinish \/ PromptNoAction \/ PromptViewLogs \/ PromptReboot
    \/ PromptWipeData \/ PromptWipeCache \/ PromptWiped \/ PromptWipeSystem
    \/ PromptApplyNone \/ PromptApplySideload \/ PromptApplyStorage
    \/ PromptInstallEnd \/ PromptApplyEnd
    \/ MainFinish
    \/ PowerLoss \/ NextBoot

Spec == Init /\ [][Next]_vars

(***************************************************************************)
(* ScreenRecoveryUI: what each call does while it holds updateMutex.       *)
(***************************************************************************)
\* The index [row][col] is inside the rows and columns allocated, s.rows and
\* s.cols.
Inside(row, col, s) == row >= 0 /\ row < s.rows /\ col >= 0 /\ col < s.cols

\* A top that moves only when the cursor reaches it in a row that was used.
TopAfterBreak_IfUsed(row, top, used) ==
    IF row = top /\ row \in used THEN (top + 1) % log_text_rows_ ELSE top

\* if (text_row_ == text_top_) text_top_ = (text_top_ + 1) % log_text_rows_;
\* used, the rows the cursor has been in, plays no part.
TopAfterBreak(row, top, used) ==
    IF row = top THEN (top + 1) % log_text_rows_ ELSE top

\* PrintV, one character: a newline or a full row ends the row and moves the
\* cursor to the next one, and the top with it when the cursor reaches it;
\* any other character is stored at the cursor.
PutLogChar(ch, s) ==
    LET brk  == ch = NL \/ s.col >= log_text_cols_
        row1 == IF brk THEN (s.row + 1) % log_text_rows_ ELSE s.row
        col1 == IF brk THEN 0 ELSE s.col
        top1 == IF brk THEN TopAfterBreak(row1, s.top, s.used) ELSE s.top
        buf1 == IF brk THEN [s.buf EXCEPT ![s.row] = Take(@, s.col)] ELSE s.buf
        buf2 == IF ch # NL THEN [buf1 EXCEPT ![row1] = Take(@, col1) \o <<ch>>]
                ELSE buf1
    IN  [ row |-> row1, col |-> IF ch # NL THEN col1 + 1 ELSE col1, top |-> top1,
          buf |-> buf2,
          used |-> s.used \cup {row1},
          breaks |-> IF brk THEN s.breaks + 1 ELSE s.breaks,
          overwritten |-> IF brk /\ row1 \in s.used THEN s.overwritten + 1
                          ELSE s.overwritten,
          advanced |-> IF top1 # s.top THEN s.advanced + 1 ELSE s.advanced,
          rows |-> s.rows, cols |-> s.cols,
          fits |-> /\ s.fits
                   /\ brk => Inside(s.row, s.col, s)
                   /\ ch # NL => Inside(row1, col1, s) ]

RECURSIVE PutLogChars(_, _)
PutLogChars(str, s) ==
    IF str = <<>> THEN s ELSE PutLogChars(Tail(str), PutLogChar(Head(str), s))

\* PrintV(fmt, copy_to_stdout, ap) with the lock held: the characters of the
\* string, then the end of the row at the cursor, then update_screen_locked.
\* The characters of str, then the terminator: text_[text_row_][text_col_] = 0.
PrintTo(str, s) ==
    LET p == PutLogChars(str, s)
    IN  [ p EXCEPT !.buf = [@ EXCEPT ![p.row] = Take(@, p.col)],
                   !.fits = @ /\ Inside(p.row, p.col, p) ]

\* PrintV(fmt, copy_to_stdout, ap) with the lock held, on the buffer text_
\* points to.
PrintV(str) ==
    IF log_text_rows_ > 0 /\ log_text_cols_ > 0
    THEN LET s == PrintTo(str,
                     [row |-> text_row_, col |-> text_col_, top |-> text_top_,
                      buf |-> bufs[text_], used |-> ui_hist.used, breaks |-> 0,
                      overwritten |-> 0, advanced |-> 0, fits |-> ui_hist.fits,
                      rows |-> BufRows(text_), cols |-> BufCols(text_)])
         IN  /\ text_row_' = s.row
             /\ text_col_' = s.col
             /\ text_top_' = s.top
             /\ bufs' = [bufs EXCEPT ![text_] = s.buf]
             /\ ui_hist' = [used |-> s.used, breaks |-> s.breaks,
                            overwritten |-> s.overwritten, advanced |-> s.advanced,
                            fits |-> s.fits]
             /\ update_screen_locked
             /\ UNCHANGED text_
    ELSE UNCHANGED << textst, ui_hist >> /\ no_update

\* PutChar(ch) on the cursor and buffer s: the character goes to
\* text_[text_row_][text_col_++] and what the row held after it stays; a
\* newline or a full row moves the cursor to the next row, without a modulo.
PutCharTo(ch, s) ==
    LET col1 == IF ch # NL THEN s.col + 1 ELSE s.col
        brk  == ch = NL \/ col1 >= text_cols_
        row1 == IF brk THEN s.row + 1 ELSE s.row
    IN  [ s EXCEPT
            !.buf = IF ch # NL
                    THEN [@ EXCEPT ![s.row] =
                            IF s.col < Len(@) THEN [@ EXCEPT ![s.col + 1] = ch]
                            ELSE @ \o <<ch>>]
                    ELSE @,
            !.col = IF brk THEN 0 ELSE col1,
            !.row = row1,
            !.top = IF brk /\ row1 = s.top THEN (s.top + 1) % text_rows_ ELSE s.top,
            !.fits = @ /\ (ch # NL => Inside(s.row, s.col, s)) ]

\* PutChar(ch) with the lock held.
PutChar(ch) ==
    LET s == PutCharTo(ch, [row |-> text_row_, col |-> text_col_, top |-> text_top_,
                            buf |-> bufs[text_], fits |-> ui_hist.fits,
                            rows |-> BufRows(text_), cols |-> BufCols(text_)])
    IN  /\ bufs' = [bufs EXCEPT ![text_] = s.buf]
        /\ text_col_' = s.col
        /\ text_row_' = s.row
        /\ text_top_' = s.top
        /\ ui_hist' = [ui_hist EXCEPT !.fits = s.fits]
        /\ UNCHANGED text_
        /\ no_update

\* for (i < log_text_rows_) memset(text_[i], 0, log_text_cols_ + 1)
ClearedRows(buf) ==
    [r \in DOMAIN buf |-> IF r < log_text_rows_ THEN <<>> ELSE buf[r]]

\* The memsets of ClearText stay inside the buffer b.
ClearTextFits(b) ==
    log_text_rows_ <= BufRows(b) /\ log_text_cols_ + 1 <= BufCols(b)

\* ClearText() with the lock held: the cursor, the top, and memset of the
\* first log_text_rows_ rows of the buffer text_ points to.
ClearText ==
    /\ text_col_' = 0
    /\ text_row_' = 0
    /\ text_top_' = 1
    /\ bufs' = [bufs EXCEPT ![text_] = ClearedRows(@)]
    /\ ui_hist' = [(IF text_ = "text" THEN NoUiHist ELSE ui_hist) EXCEPT
                      !.fits = ui_hist.fits /\ ClearTextFits(text_)]
    /\ UNCHANGED text_
    /\ no_update

\* StartMenu(headers, items, initial_selection) with the lock held; headers
\* and items are given by their number.
StartMenu(headers, items, initial_selection) ==
    IF text_rows_ > 0 /\ text_cols_ > 0
    THEN /\ header_items' = headers
         /\ menu_items' = Min(items, text_rows_)
         /\ show_menu' = TRUE
         /\ menu_sel' = initial_selection
         /\ menu_show_start_' =
                IF \/ menu_show_start_ <= initial_selection - max_menu_rows_
                   \/ menu_show_start_ > initial_selection
                THEN initial_selection ELSE menu_show_start_
         /\ update_screen_locked
         /\ UNCHANGED << wrap_count, rainbow >>
    ELSE UNCHANGED << show_menu, menu_items, menu_sel, menu_show_start_,
                      header_items, wrap_count, rainbow >> /\ no_update

\* The quotient of a / b in C, for b = 1 or b = -1.
CDiv(a, b) == IF b = 1 THEN a ELSE 0 - a

\* A counter that a wrap in the other direction does not restart.
WrapCount_Accumulate(count, wrapped) == count + wrapped

\* if (wrap_count / wrapped > 0) wrap_count += wrapped; else wrap_count = wrapped;
WrapCount(count, wrapped) ==
    IF CDiv(count, wrapped) > 0 THEN count + wrapped ELSE wrapped

\* A SelectMenu that returns the index it was given.
SelectMenuReturns_Argument(sel, new_sel) == sel

\* sel = menu_sel; ... return sel;
SelectMenuReturns(sel, new_sel) == new_sel

\* SelectMenu(sel, abs) with the lock held; selected is what it returns.
SelectMenu(sel, abs) ==
    LET sel1 == IF abs THEN sel + menu_show_start_ - header_items ELSE sel
        neg  == sel1 < 0
        sel2 == IF neg THEN menu_items + sel1 ELSE sel1
        over == sel2 >= menu_items
        sel3 == IF over THEN sel2 - menu_items ELSE sel2
        wrapped == IF over THEN 1 ELSE IF neg THEN -1 ELSE 0
        st1  == IF sel3 < menu_show_start_ /\ menu_show_start_ > 0
                THEN sel3 ELSE menu_show_start_
        st2  == IF sel3 - st1 >= max_menu_rows_ - header_items
                THEN sel3 - (max_menu_rows_ - header_items) + 1 ELSE st1
        wc1  == IF wrapped = 0 THEN wrap_count ELSE WrapCount(wrap_count, wrapped)
        omg  == wrapped # 0 /\ CDiv(wc1, wrapped) >= 5
    IN  IF show_menu
        THEN /\ menu_sel' = sel3
             /\ menu_show_start_' = st2
             /\ wrap_count' = IF omg THEN 0 ELSE wc1
             /\ rainbow' = IF omg THEN ~rainbow ELSE rainbow
             /\ selected' = SelectMenuReturns(sel1, sel3)
             /\ IF sel3 # menu_sel THEN update_screen_locked ELSE no_update
             /\ UNCHANGED << show_menu, menu_items, header_items >>
        ELSE /\ selected' = sel1
             /\ UNCHANGED << show_menu, menu_items, menu_sel, menu_show_start_,
                             header_items, wrap_count, rainbow >>
             /\ no_update

\* DialogShowInfo(text), DialogShowError(text), DialogDismiss(): the fields.
DialogShowInfo(text) ==
    /\ dialog_text' = text
    /\ dialog_show_log' = FALSE
    /\ dialog_icon' = "D_INFO"

DialogShowError(text) ==
    /\ dialog_text' = text
    /\ dialog_show_log' = FALSE
    /\ dialog_icon' = "D_ERROR"

DialogDismiss ==
    /\ dialog_text' = NoText
    /\ UNCHANGED << dialog_show_log, dialog_icon >>

\* (int) (p * scale) of SetProgress, scale = width * progressScopeSize.
Pixel(p, size) == (p * BarWidth * size) \div (PUnits * PUnits)

\* A SetProgress that forgets the upper limit.
Clamp_Below(fraction) == IF fraction < 0 THEN 0 ELSE fraction

\* if (fraction < 0.0) fraction = 0.0; if (fraction > 1.0) fraction = 1.0;
Clamp(fraction) == IF fraction < 0 THEN 0 ELSE IF fraction > PUnits THEN PUnits ELSE fraction

\* A SetProgress that takes any fraction that differs visibly.
SetProgressTakes_Any(type, fraction, p, size) ==
    type = "DETERMINATE" /\ Pixel(p, size) # Pixel(fraction, size)

\* SetProgress: if (progressBarType == DETERMINATE && fraction > progress)
\* and the pixel of the bar changes.
SetProgressTakes(type, fraction, p, size) ==
    type = "DETERMINATE" /\ fraction > p /\ Pixel(p, size) # Pixel(fraction, size)

\* SetProgress(fraction) with the lock held.
SetProgress(fraction) ==
    IF SetProgressTakes(progressBarType, Clamp(fraction), progress, progressScopeSize)
    THEN progress' = Clamp(fraction) /\ update_screen_locked
    ELSE UNCHANGED progress /\ no_update

\* EndMenu() with the lock held.
EndMenu ==
    /\ show_menu' = IF show_menu /\ text_rows_ > 0 /\ text_cols_ > 0
                    THEN FALSE ELSE show_menu
    /\ UNCHANGED << menu_items, menu_sel, menu_show_start_, header_items,
                    wrap_count, rainbow >>
    /\ no_update

(***************************************************************************)
(* ScreenRecoveryUI: the main thread's calls, statement by statement.      *)
(***************************************************************************)
\* The call of a function that starts with pthread_mutex_lock(&updateMutex);
\* the main thread continues at then when the function has returned.
Enter(name, s, n, n2, then) ==
    /\ ui_op' = [name |-> name, s |-> s, n |-> n, n2 |-> n2, then |-> then]
    /\ ui_pc' = "lock"

Icons == {"NONE", "INSTALLING_UPDATE", "D_ERROR"}
ProgressTypes == {"EMPTY", "INDETERMINATE", "DETERMINATE"}
Fractions == {-1, 1, 2, 3, PUnits + 1}
Portion == PUnits \div 2

\* The main thread calls one of the functions of the UI.
UiCall ==
    /\ ui_pc = "idle"
    /\ ui_calls < MaxCalls
    /\ ui_calls' = ui_calls + 1
    /\ \/ \E i \in Icons : Enter("SetBackground", i, 0, 0, "idle")
       \/ \E t \in ProgressTypes : Enter("SetProgressType", t, 0, 0, "idle")
       \/ /\ progressScopeStart + progressScopeSize + Portion <= PUnits
          /\ \E seconds \in {0, ProgressSeconds} :
                Enter("ShowProgress", "", Portion, seconds, "idle")
       \/ \E f \in Fractions : Enter("SetProgress", "", f, 0, "idle")
       \/ Enter("SetStage", "", 1, 2, "idle")
       \/ Enter("Print", "line", 0, 0, "idle")
       \/ Enter("ClearText", "", 0, 0, "idle")
       \/ Enter("ShowText", "", 1, 0, "idle")
       \/ \E d \in {"DialogShowInfo", "DialogShowError", "DialogShowErrorLog",
                    "DialogDismiss", "SetHeadlessMode"} :
             Enter(d, "text", 0, 0, "idle")
       \/ Enter("StartMenu", "", 1, 2, "idle")
       \/ Enter("SelectMenu", "", 1, 0, "idle")
       \/ Enter("EndMenu", "", 0, 0, "idle")
       \/ Enter("Redraw", "", 0, 0, "idle")
       \/ /\ ui_op' = [NoOp EXCEPT !.name = "SetSysbarState", !.n = 1]
          /\ ui_pc' = "sysbar"
       \/ /\ ui_op' = [NoOp EXCEPT !.name = "ShowFile"]
          /\ ui_pc' = "sf_swap_in"
    /\ UNCHANGED << recovery, show_text, show_text_ever, scr, sync, prog, anim, stagebar, textst,
                    menust, sf_old, rt_pc, now, ui_hist >>

\* pthread_mutex_lock(&updateMutex) returns.
UiLock ==
    /\ ui_pc = "lock"
    /\ updateMutex = "free"
    /\ updateMutex' = "main"
    /\ ui_pc' = "body"
    /\ UNCHANGED << recovery, show_text, show_text_ever, scr, progressCondition, update_waiting,
                    pagesIdentical, prog, anim, stagebar, textst, menust, ui_op,
                    ui_calls, sf_old, rt_pc, now, ui_hist >>

\* pthread_mutex_unlock(&updateMutex) and the return to the caller.
UiUnlock ==
    /\ ui_pc = "unlock"
    /\ updateMutex' = "free"
    /\ ui_pc' = ui_op.then
    /\ ui_op' = NoOp
    /\ UNCHANGED << recovery, show_text, show_text_ever, scr, progressCondition, update_waiting,
                    pagesIdentical, prog, anim, stagebar, textst, menust,
                    ui_calls, sf_old, rt_pc, now, ui_hist >>

\* The statements of the function called, between lock and unlock.
Body(name) ==
    /\ ui_pc = "body"
    /\ ui_op.name = name
    /\ ui_pc' = "unlock"
    /\ UNCHANGED << recovery, updateMutex, pagesIdentical, ui_op, ui_calls,
                    sf_old, rt_pc, now >>

\* SetBackground(icon)
BodySetBackground ==
    /\ Body("SetBackground")
    /\ currentIcon' = ui_op.s
    /\ update_screen_locked
    /\ UNCHANGED << show_text, show_text_ever, dlg, prog, anim, stagebar, textst, menust, ui_hist >>

\* SetProgressType(type)
BodySetProgressType ==
    /\ Body("SetProgressType")
    /\ SetProgressType(ui_op.s)
    /\ UNCHANGED << show_text, show_text_ever, scr, anim, stagebar, textst, menust, ui_hist >>

\* ShowProgress(portion, seconds)
BodyShowProgress ==
    /\ Body("ShowProgress")
    /\ progressBarType' = "DETERMINATE"
    /\ progressScopeStart' = progressScopeStart + progressScopeSize
    /\ progressScopeSize' = ui_op.n
    /\ progressScopeTime' = now
    /\ progressScopeDuration' = ui_op.n2
    /\ progress' = 0
    /\ update_screen_locked
    /\ UNCHANGED << show_text, show_text_ever, scr, anim, stagebar, textst, menust, ui_hist >>

\* SetProgress(fraction)
BodySetProgress ==
    /\ Body("SetProgress")
    /\ SetProgress(ui_op.n)
    /\ UNCHANGED << show_text, show_text_ever, scr, progressBarType, progressScopeStart,
                    progressScopeSize, progressScopeTime, progressScopeDuration,
                    anim, stagebar, textst, menust, ui_hist >>

\* SetStage(current, max)
BodySetStage ==
    /\ Body("SetStage")
    /\ stage' = ui_op.n
    /\ max_stage' = ui_op.n2
    /\ no_update
    /\ UNCHANGED << show_text, show_text_ever, scr, prog, anim, sysbar_state, textst, menust,
                    ui_hist >>

\* The line Print writes, and the page prompt of ShowFile.
PrintString(s) ==
    IF s = "line" THEN <<"a", NL>>
    ELSE IF s = "unable" THEN <<"u", NL>>
    ELSE <<"a", "a", "a">>

\* Print(fmt, ...) and PrintOnScreenOnly(fmt, ...)
BodyPrint ==
    /\ Body("Print")
    /\ PrintV(PrintString(ui_op.s))
    /\ UNCHANGED << show_text, show_text_ever, scr, prog, anim, stagebar, menust >>

\* PutChar(ch)
BodyPutChar ==
    /\ Body("PutChar")
    /\ PutChar(NL)
    /\ UNCHANGED << show_text, show_text_ever, scr, prog, anim, stagebar, menust >>

\* ClearText()
BodyClearText ==
    /\ Body("ClearText")
    /\ ClearText
    /\ UNCHANGED << show_text, show_text_ever, scr, prog, anim, stagebar, menust >>

\* ShowText(visible) with the lock held.
ShowText(visible) ==
    /\ show_text' = visible
    /\ show_text_ever' = (show_text_ever \/ visible)
    /\ update_screen_locked

\* ShowText(visible)
BodyShowText ==
    /\ Body("ShowText")
    /\ ShowText(ui_op.n = 1)
    /\ UNCHANGED << scr, prog, anim, stagebar, textst, menust, ui_hist >>

\* DialogShowInfo, DialogShowError, DialogShowErrorLog, DialogDismiss and
\* SetHeadlessMode: the fields of the dialog, then update_screen_locked.
BodyDialog ==
    /\ ui_op.name \in {"DialogShowInfo", "DialogShowError", "DialogShowErrorLog",
                       "DialogDismiss", "SetHeadlessMode"}
    /\ Body(ui_op.name)
    /\ CASE ui_op.name = "DialogShowInfo" -> DialogShowInfo(ui_op.s)
         [] ui_op.name = "DialogShowError" -> DialogShowError(ui_op.s)
         [] ui_op.name = "DialogShowErrorLog" -> DialogShowErrorLog(ui_op.s)
         [] ui_op.name = "DialogDismiss" -> DialogDismiss
         [] OTHER -> SetHeadlessMode
    /\ update_screen_locked
    /\ UNCHANGED << show_text, show_text_ever, currentIcon, prog, anim, stagebar, textst, menust,
                    ui_hist >>

\* StartMenu(headers, items, initial_selection): ui_op.n headers and ui_op.n2
\* items, the first one selected.
BodyStartMenu ==
    /\ Body("StartMenu")
    /\ StartMenu(ui_op.n, ui_op.n2, 0)
    /\ UNCHANGED << show_text, show_text_ever, scr, prog, anim, stagebar, textst, item_count,
                    selected, ui_hist >>

\* SelectMenu(sel): one row down from the selection.
BodySelectMenu ==
    /\ Body("SelectMenu")
    /\ SelectMenu(menu_sel + ui_op.n, FALSE)
    /\ UNCHANGED << show_text, show_text_ever, scr, prog, anim, stagebar, textst, item_count,
                    ui_hist >>

\* EndMenu()
BodyEndMenu ==
    /\ Body("EndMenu")
    /\ EndMenu
    /\ UNCHANGED << show_text, show_text_ever, scr, prog, anim, stagebar, textst, item_count,
                    selected, ui_hist >>

\* Redraw()
BodyRedraw ==
    /\ Body("Redraw")
    /\ update_screen_locked
    /\ UNCHANGED << show_text, show_text_ever, scr, prog, anim, stagebar, textst, menust, ui_hist >>

\* SetSysbarState(state): sysbar_state = state; then Redraw().  The device
\* has neither a back key nor a home key.
SysbarWrite ==
    /\ ui_pc = "sysbar"
    /\ sysbar_state' = ui_op.n
    /\ Enter("Redraw", "", 0, 0, "idle")
    /\ UNCHANGED << recovery, show_text, show_text_ever, scr, sync, prog, anim, stage, max_stage,
                    textst, menust, ui_calls, sf_old, rt_pc, now, ui_hist >>

\* ShowFile(filename): the file opens; the cursor and text_ are saved, text_
\* is made to point to file_viewer_text_, and ClearText() is called.
ShowFileSwapIn ==
    /\ ui_pc = "sf_swap_in"
    /\ sf_old' = [sf_old EXCEPT !.text = text_, !.col = text_col_,
                                !.row = text_row_, !.top = text_top_]
    /\ text_' = "file_viewer_text"
    /\ Enter("ClearText", "", 0, 0, "sf_clear")
    /\ UNCHANGED << recovery, show_text, show_text_ever, scr, sync, prog, anim, stagebar, cursor,
                    bufs, menust, ui_calls, rt_pc, now, ui_hist >>

\* ShowFile(fp) for an empty file: ClearText, SetBackground(VIEWING_LOG), the
\* page is filled with PutChar('\n'), the prompt is printed, Redraw, and
\* WaitKey returns KEY_POWER.
ShowFileView ==
    /\ \/ ui_pc = "sf_clear" /\ Enter("ClearText", "", 0, 0, "sf_bg")
       \/ ui_pc = "sf_bg" /\ Enter("SetBackground", "VIEWING_LOG", 0, 0, "sf_fill")
       \/ /\ ui_pc = "sf_fill"
          /\ IF text_row_ < text_rows_ - 1
             THEN Enter("PutChar", "", 0, 0, "sf_fill")
             ELSE Enter("Print", "prompt", 0, 0, "sf_redraw")
       \/ ui_pc = "sf_redraw" /\ Enter("Redraw", "", 0, 0, "sf_swap_out")
    /\ UNCHANGED << recovery, show_text, show_text_ever, scr, sync, prog, anim, stagebar, textst,
                    menust, ui_calls, sf_old, rt_pc, now, ui_hist >>

\* ShowFile(filename): text_ and the cursor are put back.
ShowFileSwapOut ==
    /\ ui_pc = "sf_swap_out"
    /\ text_' = sf_old.text
    /\ text_col_' = sf_old.col
    /\ text_row_' = sf_old.row
    /\ text_top_' = sf_old.top
    /\ sf_old' = NoOld
    /\ ui_pc' = "idle"
    /\ UNCHANGED << recovery, show_text, show_text_ever, scr, sync, prog, anim, stagebar, bufs,
                    menust, ui_op, ui_calls, rt_pc, now, ui_hist >>

(***************************************************************************)
(* ScreenRecoveryUI: the render thread, ProgressThreadLoop.                *)
(***************************************************************************)
Animated == currentIcon \in {"INSTALLING_UPDATE", "ERASING"}

\* if (progressBarType == EMPTY && !update_waiting) pthread_cond_wait(...)
RenderWaits_Empty(type, waiting) == type = "EMPTY"
RenderWaits(type, waiting) == type = "EMPTY" /\ ~waiting

\* pthread_mutex_lock; if (progressBarType == EMPTY && !update_waiting)
\* pthread_cond_wait(&progressCondition, &updateMutex): the thread holds the
\* lock, or it waits for the signal with the lock released.
RenderLock ==
    /\ rt_pc = "lock"
    /\ updateMutex = "free"
    /\ IF RenderWaits(progressBarType, update_waiting)
       THEN /\ rt_pc' = "wait"
            /\ progressCondition' = FALSE
            /\ UNCHANGED updateMutex
       ELSE /\ rt_pc' = "frame"
            /\ updateMutex' = "render"
            /\ UNCHANGED progressCondition
    /\ UNCHANGED << recovery, show_text, show_text_ever, scr, update_waiting, pagesIdentical, prog,
                    anim, stagebar, textst, menust, ui_pc, ui_op, ui_calls, sf_old,
                    now, ui_hist >>

\* pthread_cond_wait returns: the condition was signalled and the lock is
\* taken again.
RenderWake ==
    /\ rt_pc = "wait"
    /\ progressCondition
    /\ updateMutex = "free"
    /\ updateMutex' = "render"
    /\ progressCondition' = FALSE
    /\ rt_pc' = "frame"
    /\ UNCHANGED << recovery, show_text, show_text_ever, scr, update_waiting, pagesIdentical, prog,
                    anim, stagebar, textst, menust, ui_pc, ui_op, ui_calls, sf_old,
                    now, ui_hist >>

\* float p = 1.0 * elapsed / duration; if (p > 1.0) p = 1.0;
TimedProgress(elapsed, duration) == Min(PUnits, (PUnits * elapsed) \div duration)

\* The animation frame and the progress of a timed scope.
RenderFrame ==
    /\ rt_pc = "frame"
    /\ installingFrame' = IF Animated /\ installing_frames > 0
                          THEN (installingFrame + 1) % installing_frames
                          ELSE installingFrame
    /\ progress' = IF /\ progressBarType = "DETERMINATE"
                      /\ progressScopeDuration > 0
                      /\ TimedProgress(now - progressScopeTime,
                                       progressScopeDuration) > progress
                   THEN TimedProgress(now - progressScopeTime, progressScopeDuration)
                   ELSE progress
    /\ rt_pc' = "draw"
    /\ UNCHANGED << recovery, show_text, show_text_ever, scr, sync, progressBarType,
                    progressScopeStart, progressScopeSize, progressScopeTime,
                    progressScopeDuration, installing_frames, stagebar, textst,
                    menust, ui_pc, ui_op, ui_calls, sf_old, now, ui_hist >>

\* draw_screen_locked() when a redraw waits or the pages differ, the
\* progress, gr_flip(); update_waiting = false; pthread_mutex_unlock.
RenderDraw ==
    /\ rt_pc = "draw"
    /\ pagesIdentical' = IF update_waiting \/ ~pagesIdentical
                         THEN ~update_waiting ELSE pagesIdentical
    /\ update_waiting' = FALSE
    /\ updateMutex' = "free"
    /\ rt_pc' = "sleep"
    /\ UNCHANGED << recovery, show_text, show_text_ever, scr, progressCondition, prog, anim,
                    stagebar, textst, menust, ui_pc, ui_op, ui_calls, sf_old, now,
                    ui_hist >>

\* usleep(delay) returns.
RenderSleep ==
    /\ rt_pc = "sleep"
    /\ rt_pc' = "lock"
    /\ UNCHANGED << recovery, show_text, show_text_ever, scr, sync, prog, anim, stagebar, textst,
                    menust, ui_pc, ui_op, ui_calls, sf_old, now, ui_hist >>

\* Time passes.
Tick ==
    /\ now < MaxNow
    /\ now' = now + 1
    /\ UNCHANGED << recovery, show_text, show_text_ever, scr, sync, prog, anim, stagebar, textst,
                    menust, ui_pc, ui_op, ui_calls, sf_old, rt_pc, ui_hist >>

\* The recovery that owns the screen is at the start of main.
RecoveryIdleOn(scrn) ==
    /\ have_oemlock = FALSE
    /\ misc_ok = TRUE
    /\ screen = scrn
    /\ cache_ok = TRUE
    /\ session = 1
    /\ proc_args = <<>>
    /\ bcb = ZeroBoot
    /\ command_file = NULL
    /\ files = NoFiles
    /\ hist = NoHist
    /\ Fresh

RecoveryIdle == RecoveryIdleOn(SmallScreen)

InitUI ==
    /\ RecoveryIdle
    /\ \E uw \in BOOLEAN, garbage \in {<<0, 0>>, <<0, ProgressSeconds>>,
                                         <<MaxNow, ProgressSeconds>>} :
          UiFresh(uw, garbage[1], garbage[2], Frames)

MainThread ==
    \/ UiCall \/ UiLock \/ UiUnlock
    \/ BodySetBackground \/ BodySetProgressType \/ BodyShowProgress
    \/ BodySetProgress \/ BodySetStage \/ BodyPrint \/ BodyPutChar
    \/ BodyClearText \/ BodyShowText \/ BodyDialog
    \/ BodyStartMenu \/ BodySelectMenu \/ BodyEndMenu \/ BodyRedraw
    \/ SysbarWrite \/ ShowFileSwapIn \/ ShowFileView \/ ShowFileSwapOut

RenderThread ==
    RenderLock \/ RenderWake \/ RenderFrame \/ RenderDraw \/ RenderSleep

NextUI == MainThread \/ RenderThread \/ Tick

SpecUI == InitUI /\ [][NextUI]_vars

(***************************************************************************)
(* The text log alone: Print and ClearText, each call from lock to unlock. *)
(***************************************************************************)
MaxPrints == 4

PrintStrings == { <<"a", NL>>, <<"a", "a", "a">>, <<NL, NL>>, <<"b">> }

InitText == RecoveryIdle /\ UiFresh(FALSE, 0, 0, Frames)

\* Print(fmt, ...)
TextPrint ==
    /\ ui_pc = "idle"
    /\ ui_hist.fits
    /\ ui_calls < MaxPrints
    /\ ui_calls' = ui_calls + 1
    /\ \E str \in PrintStrings : PrintV(str)
    /\ UNCHANGED << recovery, show_text, show_text_ever, scr, updateMutex, pagesIdentical, prog,
                    anim, stagebar, menust, ui_pc, ui_op, sf_old, rt_pc, now >>

\* ClearText()
TextClear ==
    /\ ui_pc = "idle"
    /\ ui_hist.fits
    /\ ui_calls < MaxPrints
    /\ ui_calls' = ui_calls + 1
    /\ ClearText
    /\ UNCHANGED << recovery, show_text, show_text_ever, scr, updateMutex, pagesIdentical, prog,
                    anim, stagebar, menust, ui_pc, ui_op, sf_old, rt_pc, now >>

NextText == TextPrint \/ TextClear

SpecText == InitText /\ [][NextText]_vars

(***************************************************************************)
(* The menu alone: get_menu_selection and its callers, each UI call from   *)
(* lock to unlock.  ui_pc is "menu" in the key loop and "chosen" during    *)
(* the usleep after an absolute selection; ui_op.n and ui_op.n2 are the    *)
(* list and the chosen_item browse_directory keeps while a subdirectory is *)
(* browsed.                                                                *)
(***************************************************************************)
MenuSizes == {1, 2, 4, text_rows_ + 3}
HeaderCounts == {0, 1, 2}

InitMenu == RecoveryIdle /\ UiFresh(FALSE, 0, 0, Frames)

\* What the menu actions leave alone.
MenuFrame ==
    UNCHANGED << recovery, show_text, show_text_ever, scr, updateMutex, pagesIdentical, prog,
                 anim, stagebar, textst, ui_calls, sf_old, rt_pc, now, ui_hist >>

\* get_menu_selection(headers, items, menu_only, 0, device) up to the loop.
MenuStart ==
    /\ ui_pc = "idle"
    /\ \E h \in IF ui_op.name = "browse_directory" THEN {1} ELSE HeaderCounts,
          n \in MenuSizes :
          /\ item_count' = n
          /\ selected' = 0
          /\ StartMenu(h, n, 0)
    /\ ui_pc' = "menu"
    /\ UNCHANGED ui_op
    /\ MenuFrame

\* browse_directory: the subdirectory returned NULL and the list is shown
\* again, get_menu_selection(headers, zips, 1, chosen_item, device).
MenuReshow ==
    /\ ui_pc = "idle"
    /\ ui_op.name = "browse_directory"
    /\ item_count' = ui_op.n
    /\ selected' = ui_op.n2
    /\ StartMenu(1, ui_op.n, ui_op.n2)
    /\ ui_pc' = "menu"
    /\ ui_op' = NoOp
    /\ MenuFrame

\* case Device::kHighlightUp: selected = ui->SelectMenu(--selected);
MenuKeyUp ==
    /\ ui_pc = "menu"
    /\ SelectMenu(selected - 1, FALSE)
    /\ UNCHANGED << ui_pc, ui_op, item_count >>
    /\ MenuFrame

\* case Device::kHighlightDown: selected = ui->SelectMenu(++selected);
MenuKeyDown ==
    /\ ui_pc = "menu"
    /\ SelectMenu(selected + 1, FALSE)
    /\ UNCHANGED << ui_pc, ui_op, item_count >>
    /\ MenuFrame

\* An action >= 0 that passes the test of get_menu_selection:
\* selected = ui->SelectMenu(action, true); action = Device::kInvokeItem.
MenuKeyAbs ==
    /\ ui_pc = "menu"
    /\ \E action \in header_items..(header_items + item_count - 1) :
          SelectMenu(action, TRUE)
    /\ ui_pc' = "chosen"
    /\ UNCHANGED << ui_op, item_count >>
    /\ MenuFrame

\* The loop ends (an item is invoked, or back, or home): ui->EndMenu().
MenuChoose ==
    /\ ui_pc \in {"menu", "chosen"}
    /\ EndMenu
    /\ ui_pc' = "idle"
    /\ UNCHANGED << ui_op, item_count, selected >>
    /\ MenuFrame

\* browse_directory: the item chosen is a subdirectory, which is browsed
\* while chosen_item and zips are kept; one list is followed, the lists of
\* the subdirectories are left without a choice.
MenuChooseDir ==
    /\ ui_pc \in {"menu", "chosen"}
    /\ ui_op.name # "browse_directory"
    /\ header_items = 1
    /\ selected >= 1 /\ selected < item_count
    /\ EndMenu
    /\ ui_pc' = "idle"
    /\ ui_op' = [NoOp EXCEPT !.name = "browse_directory", !.n = item_count,
                             !.n2 = selected]
    /\ UNCHANGED << item_count, selected >>
    /\ MenuFrame

\* main, before the prompt: ui->ShowText(true).
MenuShowText ==
    /\ ui_pc = "idle"
    /\ ~show_text
    /\ ShowText(TRUE)
    /\ UNCHANGED << recovery, scr, updateMutex, pagesIdentical, prog, anim,
                    stagebar, textst, menust, threads >>

\* A timeout that leaves the menu whatever the text has been.
TimeoutAbandons_Always(ever_visible) == TRUE

\* if (ui->WasTextEverVisible()) continue; else { ui->EndMenu(); return 0; }
TimeoutAbandons(ever_visible) == ~ever_visible

\* key == -1: WaitKey has timed out, which takes time.
MenuTimeout ==
    /\ ui_pc = "menu"
    /\ now < MaxNow
    /\ now' = now + 1
    /\ IF TimeoutAbandons(show_text_ever)
       THEN EndMenu /\ ui_pc' = "idle"
       ELSE UNCHANGED << show_menu, menu_items, menu_sel, menu_show_start_,
                         header_items, wrap_count, rainbow, update_waiting,
                         progressCondition, ui_pc >>
    /\ UNCHANGED << recovery, show_text, show_text_ever, scr, updateMutex,
                    pagesIdentical, prog, anim, stagebar, textst, item_count,
                    selected, ui_op, ui_calls, sf_old, rt_pc, ui_hist >>

NextMenu ==
    \/ MenuStart \/ MenuReshow \/ MenuKeyUp \/ MenuKeyDown \/ MenuKeyAbs
    \/ MenuChoose \/ MenuChooseDir \/ MenuShowText \/ MenuTimeout

SpecMenu == InitMenu /\ [][NextMenu]_vars

(***************************************************************************)
(* The two threads while a package installs: the caller changes the icon   *)
(* and the progress bar only, as install_package and apply_from_storage do.*)
(***************************************************************************)
InstallCall ==
    /\ ui_pc = "idle"
    /\ ui_calls < MaxCalls
    /\ ui_calls' = ui_calls + 1
    /\ \/ \E i \in Icons : Enter("SetBackground", i, 0, 0, "idle")
       \/ \E t \in ProgressTypes : Enter("SetProgressType", t, 0, 0, "idle")
       \/ /\ progressScopeStart + progressScopeSize + Portion <= PUnits
          /\ \E seconds \in {0, ProgressSeconds} :
                Enter("ShowProgress", "", Portion, seconds, "idle")
    /\ UNCHANGED << recovery, show_text, show_text_ever, scr, sync, prog, anim, stagebar, textst,
                    menust, sf_old, rt_pc, now, ui_hist >>

\* What the main thread does once it has made a call.
InstallContinues ==
    \/ UiLock \/ UiUnlock
    \/ BodySetBackground \/ BodySetProgressType \/ BodyShowProgress

NextInstallUI == InstallCall \/ InstallContinues \/ RenderThread \/ Tick

\* Both threads are scheduled and each gets the mutex in the end; a call the
\* main thread has made runs to its return; the main thread need not make
\* another call, and the clock need not be read again.
FairSpecInstallUI ==
    /\ InitUI
    /\ [][NextInstallUI]_vars
    /\ SF_vars(RenderLock) /\ SF_vars(RenderWake)
    /\ WF_vars(RenderFrame) /\ WF_vars(RenderDraw) /\ WF_vars(RenderSleep)
    /\ SF_vars(InstallContinues)

(***************************************************************************)
(* Properties: argument resolution and the control block.                  *)
(***************************************************************************)
\* get_args has just returned.
Resolved == pc \in {"dispatch", "resolved"}

Chars(str) == {str[i] : i \in 1..Len(str)}

\* Arguments the newline-separated blob can carry: no empty one, no newline.
WellFormed(al) == \A i \in 1..Len(al) : al[i] # <<>> /\ NL \notin Chars(al[i])

\* "recovery\n" followed by every argument and a newline.
Blob(al) == S_recovery \o <<NL>> \o JoinLines(al)

\* The blob fits the recovery field with its terminating NUL.
Fits(al) == Len(Blob(al)) <= RecoverySize - 1

\* The blob split on newlines, without its leading token.
Decode(rec) ==
    LET toks == strtok(rec, {NL}) IN IF toks = <<>> THEN <<>> ELSE Tail(toks)

\* C1 as stated: when get_args returns, the record it wrote has command
\* "boot-recovery" and recovery "recovery\n" followed by every resolved
\* argument and a newline, and decoding that blob gives the resolved arguments
\* back.
C1_BlobIsJoinedArgs ==
    Resolved =>
        /\ hist.last_write.command = S_boot_recovery
        /\ hist.last_write.recovery = Blob(args)
        /\ Decode(hist.last_write.recovery) = args

\* C1 amended: the record get_args hands to set_bootloader_message has
\* command "boot-recovery" and as recovery the joined blob cut to the size of
\* the field; it is on the device when the device can be written; and it
\* decodes to the resolved arguments when the blob fits the field and no
\* argument is empty or holds a newline.
C1_BlobIsTruncatedJoin ==
    Resolved =>
        /\ hist.last_write.command = S_boot_recovery
        /\ hist.last_write.recovery = strlcpy(Blob(args), RecoverySize)
        /\ misc_ok => bcb = hist.last_write
        /\ (Fits(args) /\ WellFormed(args)) =>
               /\ hist.last_write.recovery = Blob(args)
               /\ Decode(hist.last_write.recovery) = args

\* C1 witness: two arguments read from the command file were written to the
\* device and decode to themselves.
C1_Witness ==
    /\ pc = "dispatch" /\ hist.from_file /\ Len(args) = 2
    /\ Fits(args) /\ WellFormed(args)
    /\ bcb.recovery = Blob(args) /\ Decode(bcb.recovery) = args

\* C2 as stated: a session that follows a power loss during the operation
\* resolves the argument list the interrupted session had resolved.
C2_SameArgsAfterPowerLoss ==
    (pc = "resolved" /\ hist.resumed) => args = hist.prev_args

\* C2 amended: while the argument-dispatched operation runs, the record of
\* get_args stays the last one written (and stays on a writable device); and
\* when the device can be read and written, the blob of the interrupted
\* session fitted the field and its arguments were well formed (and held no
\* --oemunlock on a HAVE_OEMLOCK build), the next session resolves the same
\* list, from the control block alone.
C2_ResumeFromBlock ==
    /\ hist.in_op =>
           /\ hist.last_write.command = S_boot_recovery
           /\ hist.last_write.recovery = strlcpy(Blob(args), RecoverySize)
           /\ misc_ok => bcb = hist.last_write
    /\ ( /\ pc = "resolved" /\ hist.resumed /\ misc_ok
         /\ Fits(hist.prev_args) /\ WellFormed(hist.prev_args)
         /\ have_oemlock => \A i \in 1..Len(hist.prev_args) :
                                hist.prev_args[i] # S_oemunlock )
       => /\ args = hist.prev_args
          /\ args # <<>> => (hist.from_bcb /\ ~hist.from_file)

\* C2 witness: the arguments came from a command file that the interrupted
\* wipe has destroyed, and the next session has them from the control block.
C2_Witness ==
    /\ pc = "resolved" /\ hist.resumed /\ hist.from_bcb /\ proc_args = <<>>
    /\ command_file = NULL
    /\ args = << Flag("w"), FlagArg("l", <<"l">>) >>
    /\ args = hist.prev_args

C4_ClearedExactlyOnce ==
    pc = "reboot" => hist.clears = 1

\* C4 amended: a session that reaches the final request has cleared the
\* control block once for every iteration of the prompt loop and once more
\* before the request, the last write being a clearing; and nothing is
\* cleared while the argument-dispatched operation is still to complete.
C4_ClearedAtEveryFinish ==
    /\ pc = "reboot" =>
           /\ hist.clears = hist.prompts + 1
           /\ hist.last_write = ZeroBoot
    /\ hist.in_op => hist.clears = 0

\* C4 witness: a session with two iterations of the prompt loop, in which an
\* operation ran after the first clearing, has cleared three times.
C4_Witness ==
    pc = "reboot" /\ hist.prompts = 2 /\ hist.clears = 3 /\ modified_flash

\* The state after one more call of finish_recovery with the same intent.
C5_Again ==
    finish_recovery(
        [bcb |-> bcb, last_write |-> hist.last_write,
         command_file |-> command_file, files |-> files,
         rotated |-> rotated, tmplog_offset |-> tmplog_offset],
        IF pc = "reboot" THEN opts.send_intent ELSE NULL,
        locale, modified_flash,
        TmpLog(session, IF locale THEN Grow(tmplog_len) ELSE tmplog_len),
        tmp_install, KernelLog(session), cache_ok, misc_ok)

IsPrefix(p, q) == Len(p) <= Len(q) /\ SubSeq(q, 1, Len(p)) = p

BcbTokens ==
    LET toks == strtok(strlcpy(hist.boot_read.recovery, RecoverySize), {NL})
    IN  IF toks # <<>> /\ toks[1] = S_recovery
        THEN SelectSeq(Tail(toks), LAMBDA t : ~have_oemlock \/ t # S_oemunlock)
        ELSE <<>>

\* The arguments the command file carries: the first token of every line.
FileTokens ==
    IF hist.file_read = NULL THEN <<>>
    ELSE LineTokens(fgets(hist.file_read, MAX_ARG_LENGTH))

\* C6: the resolved arguments are the process arguments when there are any,
\* else those of the control block when its blob starts with "recovery" and
\* carries any, else those of the command file, else none; the blob is used
\* only without process arguments and with "recovery" as first token, the
\* command file only when both earlier sources gave no argument.
C6_Precedence ==
    Resolved =>
        /\ args = IF proc_args # <<>> THEN proc_args
                  ELSE IF BcbTokens # <<>> THEN BcbTokens
                  ELSE FileTokens
        /\ hist.from_bcb =>
               /\ proc_args = <<>>
               /\ Head(strtok(hist.boot_read.recovery, {NL})) = S_recovery
        /\ hist.from_file => (proc_args = <<>> /\ BcbTokens = <<>>)
        /\ (proc_args = <<>> /\ BcbTokens = <<>> /\ hist.file_read = NULL) => args = <<>>

\* C6 witness: process arguments, a control block with arguments and a
\* command file are all there, and the process arguments are the result.
C6_Witness ==
    /\ pc = "dispatch" /\ proc_args # <<>> /\ args = proc_args
    /\ BcbTokens # <<>> /\ FileTokens # <<>>
    /\ ~hist.from_bcb /\ ~hist.from_file

(***************************************************************************)
(* Properties: the logs across an erase of /cache.                         *)
(***************************************************************************)
\* What erase_volume finds of file n before it formats: its content cut to
\* the cap when it is a last_* file or the log.
SavedBefore(n) ==
    IF is_saved_name(n) /\ hist.pre_files[n] # NoFile
    THEN Take(hist.pre_files[n], LogCap) ELSE NoFile

\* The step in which a non-forced erase_volume("/cache") returns.
CacheEraseReturns ==
    pc = "ev_restore" /\ SavesLogs /\ pc' # pc /\ session' = session

\* C7 as stated: after a non-forced erase of /cache every last_* file and
\* the log is there with its content cut to the cap, and no other such file.
C7_SameLogsAfterErase ==
    [][ CacheEraseReturns =>
            \A n \in LogNames : is_saved_name(n) => files'[n] = SavedBefore(n) ]_vars

\* C7 amended: a non-forced erase of /cache that leaves a mountable volume
\* returns with last_locale as it was (cut to the cap); with every older
\* generation of last_log and last_kmsg under its name when the session had
\* rotated before, else one generation up (the oldest one is kept when no
\* younger one takes its place); with the log holding its former content (cut
\* to the cap) followed by the whole temporary log; and with last_log and
\* last_install rewritten from the current session.  On a volume that cannot
\* be mounted nothing is restored.
C7_LogsRestoredThenCopied ==
    [][ /\ (CacheEraseReturns /\ cache_ok) =>
            /\ modified_flash
            /\ files'[LOCALE_FILE] = SavedBefore(LOCALE_FILE)
            /\ \A base \in {LAST_LOG_FILE, LAST_KMSG_FILE} :
                 \A i \in 1..KEEP_LOG_COUNT :
                   files'[Gen(base, i)] =
                       IF rotated THEN SavedBefore(Gen(base, i))
                       ELSE IF SavedBefore(Gen(base, i - 1)) # NoFile
                            THEN SavedBefore(Gen(base, i - 1))
                            ELSE IF i = KEEP_LOG_COUNT
                                 THEN SavedBefore(Gen(base, i)) ELSE NoFile
            /\ files'[LOG_FILE] =
                   (IF SavedBefore(LOG_FILE) = NoFile THEN <<>> ELSE SavedBefore(LOG_FILE))
                       \o TmpLog(session, tmplog_len)
            /\ files'[Gen(LAST_LOG_FILE, 0)] = TmpLog(session, tmplog_len)
            /\ files'[LAST_INSTALL_FILE] # NoFile
        /\ (CacheEraseReturns /\ ~cache_ok) => files' = files ]_vars

\* C7 witness: wipe_data is back from a successful erase of /cache; the log
\* starts with its former content cut to the cap and goes on with the
\* temporary log, the former last_log is one generation up.
C7_Witness ==
    /\ pc = "wd_cache" /\ ret /\ cache_ok
    /\ files[Gen(LAST_LOG_FILE, 1)] = <<1>>
    /\ files[LOCALE_FILE] = <<6>>
    /\ Len(files[LOG_FILE]) > LogCap
    /\ Take(files[LOG_FILE], LogCap) = Take(OldFiles[LOG_FILE], LogCap)

(***************************************************************************)
(* Properties: modified_flash.                                             *)
(***************************************************************************)
\* C8 as stated: whenever erase_volume or an install is in progress,
\* modified_flash is true.
C8_FlagBeforeDestructiveStep ==
    pc \in {"ev_save", "ev_format", "ev_restore",
            "m_installing", "m_sideloading", "p_installing"} => modified_flash

\* The persisted log files: log, last_log*, last_kmsg*, last_install.
PersistedLogs ==
    {n \in LogNames : n[1] \in {"log", LAST_LOG_FILE, LAST_KMSG_FILE, "last_install"}}

\* A step in which main or prompt_and_wait calls copy_logs or finish_recovery.
CopiesOrFinishes ==
    /\ pc \in {"m_post", "p_apply_end", "p_finish", "m_headless", "m_finish"}
    /\ pc' # pc /\ session' = session

\* C9: while modified_flash is false, no call of copy_logs or finish_recovery
\* changes a persisted log file or rotates.
C9_NoTraceWithoutFlag ==
    [][ (CopiesOrFinishes /\ ~modified_flash) =>
            /\ \A n \in PersistedLogs : files'[n] = files[n]
            /\ rotated' = rotated /\ tmplog_offset' = tmplog_offset ]_vars

\* C9 witness: a session that went through the menu twice without any
\* operation requests the reboot; the logs of the former session are intact.
C9_Witness ==
    /\ pc = "reboot" /\ ~modified_flash /\ hist.prompts = 2 /\ ~rotated
    /\ \A n \in PersistedLogs : files[n] = OldFiles[n]

(***************************************************************************)
(* Properties: wipe_data.                                                  *)
(***************************************************************************)
\* C10: wipe_data makes at most two passes through retry; the first runs with
\* the force it was called with; a second is made only after the first
\* failed without force (and the user accepted when asked), and runs forced.
C10_AtMostTwoAttempts ==
    /\ wd.attempts <= 2
    /\ wd.attempts = 1 => wd.force = wd.force0
    /\ wd.attempts = 2 =>
           /\ wd.force /\ ~wd.force0 /\ wd.failed1
           /\ wd.should_confirm => wd.accepted
    /\ (pc = "wd_pre" /\ wd.attempts = 2) => ~wd.success

\* C10 witness: the forced second attempt has failed as well, after the user
\* accepted the retry; wipe_data is about to return.
C10_Witness ==
    /\ pc = "wd_check" /\ wd.attempts = 2 /\ ~wd.success /\ wd.force
    /\ wd.should_confirm /\ wd.accepted

(***************************************************************************)
(* C11  A successful install that asked for a wipe of /cache.              *)
(***************************************************************************)
\* The install is treated as complete: main is past its operation, or
\* prompt_and_wait is past case APPLY_UPDATE.
InstallComplete == pc \in {"m_post", "p_finish", "m_finish"}

\* C11: whenever an install has ended with success and asked for a wipe of
\* /cache, erase_volume has been called for /cache by the time the install is
\* treated as complete, whether the install came from --update_package, from
\* --sideload or from the menu.
C11_CacheWipedBeforeComplete == InstallComplete => ~hist.wipe_due

\* The same for the installs dispatched from the arguments only.
C11_ArgumentInstallsWipe ==
    (InstallComplete /\ hist.prompts = 0) => ~hist.wipe_due

\* An install from the arguments asked for the wipe and /cache was erased.
C11_ArgumentWitness ==
    /\ pc = "m_post" /\ opts.should_wipe_cache /\ status = "SUCCESS"
    /\ opts.update_package # NULL \/ opts.sideload
    /\ modified_flash /\ files = NoFiles

(***************************************************************************)
(* C12  An operation from the arguments that ends in failure.              *)
(***************************************************************************)
\* main is past the operation the arguments asked for, the status is Error or
\* Corrupt and sideload-auto-reboot was not asked for.
ArgOperationFailed ==
    pc = "m_post" /\ Failed(status) /\ ~opts.sideload_auto_reboot

\* C12 as stated: after an operation from the arguments that ended with Error
\* or Corrupt outside sideload-auto-reboot mode, main sets the error
\* background and enters prompt_and_wait.
C12_ErrorAlwaysPrompts ==
    [][ArgOperationFailed /\ session' = session
         => currentIcon' = "D_ERROR" /\ pc' = "p_finish"]_vars

\* C12: after an operation from the arguments that ended with Error or Corrupt
\* outside sideload-auto-reboot mode, main sets the error background and
\* enters prompt_and_wait, except in headless mode, where it calls
\* finish_recovery and pauses for ever; in neither case does it go on to
\* request a reboot or shutdown without the prompt.
C12_ErrorPromptsUnlessHeadless ==
    /\ [][ArgOperationFailed /\ session' = session
            => /\ currentIcon' = "D_ERROR"
               /\ pc' = IF opts.headless THEN "m_headless" ELSE "p_finish"]_vars
    /\ [][pc = "m_headless" /\ session' = session
            => pc' \in {"paused", "crashed"}]_vars
    /\ [][(pc = "paused" \/ pc = "crashed") => pc' # "reboot"]_vars

\* A failed operation from the arguments has led to the prompt with the error
\* background.
C12_Witness ==
    /\ pc = "p_menu" /\ hist.prompts = 1 /\ Failed(status)
    /\ ~opts.sideload_auto_reboot /\ ~opts.headless
    /\ currentIcon = "D_ERROR" /\ modified_flash

(***************************************************************************)
(* C13  The error dialog of a failed wipe or install.                      *)
(***************************************************************************)
ErrorLogShowing ==
    dialog_text # NoText /\ dialog_show_log /\ dialog_icon = "D_ERROR"

\* A wipe or install has just ended in failure: the one the arguments asked
\* for, or the install of the menu (show_apply_update_menu has returned).
OperationFailed == pc \in {"m_post", "p_apply_end"} /\ Failed(status)

\* C13: whenever a wipe or install, from the arguments or from the menu, has
\* ended in failure, the error dialog that offers the log is on the screen.
C13_FailureShowsErrorLog == OperationFailed => ErrorLogShowing

\* The same for the installs of the menu only.
C13_MenuInstallShowsErrorLog ==
    (pc = "p_apply_end" /\ Failed(status)) => ErrorLogShowing

\* An install of the menu failed and the dialog is showing.
C13_MenuWitness ==
    pc = "p_apply_end" /\ status = "CORRUPT" /\ ErrorLogShowing

(***************************************************************************)
(* C14  Writes to the screen's state and updateMutex.                      *)
(***************************************************************************)
\* The next statement of the main thread writes a field of the screen: the
\* body of a call, sysbar_state = state, or ShowFile's writes of text_ and
\* the cursor.
MainWrites == ui_pc \in {"body", "sysbar", "sf_swap_in", "sf_swap_out"}

\* C14: whenever the main thread writes a field of the screen's shared state
\* while the render thread runs, it holds updateMutex.
C14_WritesHoldMutex == MainWrites => updateMutex = "main"

\* The main thread is at one of its writes without the mutex while the render
\* thread holds the mutex and draws.
C14_WriteWhileDrawing ==
    /\ ui_pc \in {"sysbar", "sf_swap_in", "sf_swap_out"}
    /\ updateMutex = "render" /\ rt_pc = "draw"

(***************************************************************************)
(* C15  Every mutator asks for a redraw.                                   *)
(***************************************************************************)
\* What draw_screen_locked and draw_progress_locked show.
Drawn ==
    << show_text, currentIcon, dlg, progressBarType, progressScopeStart,
       progressScopeSize, progress, stage, max_stage, sysbar_state, text_,
       cursor, bufs, show_menu, menu_items, menu_sel, menu_show_start_,
       header_items >>

\* The body of a call runs, up to its pthread_mutex_unlock.
MutatorRuns == ui_pc = "body" /\ ui_pc' = "unlock"

\* C15: every mutator that changes the shared state sets update_waiting and
\* signals progressCondition before it releases updateMutex.
C15_MutatorsRequestRedraw ==
    [][MutatorRuns /\ Drawn' # Drawn
         => update_waiting' /\ (rt_pc = "wait" => progressCondition')]_vars

\* The same for the mutators that call update_screen_locked.
C15_UpdatingMutatorsRequestRedraw ==
    [][MutatorRuns /\ Drawn' # Drawn
                   /\ ui_op.name \notin {"SetStage", "ClearText", "PutChar", "EndMenu"}
         => update_waiting' /\ (rt_pc = "wait" => progressCondition')]_vars

(***************************************************************************)
(* C16  The animation while the render thread waits.                       *)
(***************************************************************************)
Animating == Animated /\ installing_frames > 1

\* C16: while an animated icon is showing, the installing frame keeps
\* advancing, whatever the type of the progress bar and even if no mutator
\* is called again.
C16_AnimationKeepsAdvancing ==
    \A f \in 0..(Frames - 1) :
        (Animating /\ installingFrame = f) ~> (~Animating \/ installingFrame # f)

\* The same while a progress bar is showing.
C16_AdvancesWithProgressBar ==
    \A f \in 0..(Frames - 1) :
        (Animating /\ installingFrame = f /\ progressBarType # "EMPTY")
           ~> (~Animating \/ installingFrame # f \/ progressBarType = "EMPTY")

\* The render thread waits for the signal while an animated icon is showing.
C16_WaitsWhileAnimating ==
    Animating /\ rt_pc = "wait" /\ ~progressCondition /\ ui_pc = "idle"

(***************************************************************************)
(* C17  The progress of a determinate bar.                                 *)
(***************************************************************************)
\* progressScopeStart + progress * progressScopeSize, in 1/PUnits^2.
Rendered == progressScopeStart * PUnits + progress * progressScopeSize

\* The step is the body of ShowProgress or SetProgressType: a new scope.
NewScope ==
    MutatorRuns /\ ui_op.name \in {"ShowProgress", "SetProgressType"}

\* The step is the body of a SetProgress whose fraction is not above progress.
LowSetProgress ==
    MutatorRuns /\ ui_op.name = "SetProgress" /\ Clamp(ui_op.n) <= progress

\* C17: within a scope neither progress nor the rendered fraction decreases,
\* whatever the interleaving of SetProgress with the render thread; and a
\* SetProgress whose clamped fraction is not above progress changes nothing
\* and asks for no redraw.
C17_ProgressMonotone ==
    /\ [][~NewScope => progress' >= progress /\ Rendered' >= Rendered]_vars
    /\ [][LowSetProgress
            => UNCHANGED << Drawn, update_waiting, progressCondition,
                            pagesIdentical, anim >>]_vars

\* A SetProgress below the progress the render thread had advanced by time
\* has just been ignored.
C17_Witness ==
    /\ ui_pc = "unlock" /\ ui_op.name = "SetProgress"
    /\ progressBarType = "DETERMINATE" /\ progressScopeDuration > 0
    /\ progress > Clamp(ui_op.n) /\ Clamp(ui_op.n) > 0

(***************************************************************************)
(* C18  The ring of the text log.                                          *)
(***************************************************************************)
\* C18: text_top_ moves once for each row that is overwritten and does not
\* move when the cursor goes into a row that held no older content.
C18_TopMovesOnlyOnOverwrite == ui_hist.advanced = ui_hist.overwritten

\* C18 (as the code has it): text_top_ moves by one, modulo log_text_rows_,
\* at every line break, into a fresh row or into a used one, so that it always
\* is the row after the cursor's; the row a break overwrites is the one
\* text_top_ pointed to, the oldest, and every overwritten row moves the top.
C18_TopFollowsCursor ==
    /\ text_top_ = (text_row_ + 1) % log_text_rows_
    /\ ui_hist.advanced = ui_hist.breaks
    /\ ui_hist.overwritten <= ui_hist.advanced
    /\ [][text_row_' # text_row_ /\ ui_hist'.breaks = 1 => text_row_' = text_top_]_vars

\* More lines than log_text_rows_ have been printed: the last Print went
\* into a row that held an older line.
C18_Witness == ui_hist.overwritten > 0 /\ ui_calls > log_text_rows_

(***************************************************************************)
(* C19  The selection is an item of the menu.                              *)
(***************************************************************************)
\* A menu is up: StartMenu has returned, and any SelectMenu since.
MenuUp == ui_pc \in {"menu", "chosen"} /\ menu_items >= 1

\* C19: after StartMenu and after every SelectMenu, relative or absolute, on
\* a menu with at least one item, 0 <= menu_sel < menu_items.
C19_SelectionInRange == MenuUp => menu_sel >= 0 /\ menu_sel < menu_items

\* The same for the lists that fit the screen (no item was left out).
C19_InRangeIfListFits ==
    MenuUp /\ item_count <= text_rows_ => menu_sel >= 0 /\ menu_sel < menu_items

\* An absolute selection has wrapped into the range on a list that fits.
C19_FitsWitness ==
    /\ ui_pc = "chosen" /\ item_count <= text_rows_ /\ wrap_count > 0
    /\ selected < item_count - 1

(***************************************************************************)
(* C20  The selection is in the window that is drawn.                      *)
(***************************************************************************)
\* The rows draw_screen_locked has for items.
WindowRows == max_menu_rows_ - header_items

\* C20: after StartMenu and after every SelectMenu the selected item is in
\* the window, menu_show_start_ <= menu_sel < menu_show_start_ + WindowRows.
C20_SelectionInWindow ==
    MenuUp => /\ menu_show_start_ <= menu_sel
              /\ menu_sel < menu_show_start_ + WindowRows

\* The same for the menus started with initial_selection 0, while the
\* selection is an item of the menu.
C20_InWindowFromTop ==
    [][(/\ MenuUp'
        /\ (MenuUp => C20_SelectionInWindow)
        /\ ~(ui_pc = "idle" /\ selected' # 0)
        /\ menu_sel' >= 0 /\ menu_sel' < menu_items'
        /\ (ui_pc # "idle" => menu_sel >= 0 /\ menu_sel < menu_items))
          => C20_SelectionInWindow']_vars

\* A list is shown again with the item chosen before.
C20_ReshowWitness == ui_pc = "menu" /\ selected = 2 /\ menu_show_start_ = 0 /\ header_items = 1

(***************************************************************************)
(* C21  Relative selection wraps and counts its wraps.                     *)
(***************************************************************************)
\* The selection is an item of the menu and is what get_menu_selection holds.
AtItem == menu_sel >= 0 /\ menu_sel < menu_items /\ selected = menu_sel

\* What a wrap in direction dir (1 down, -1 up) makes of the counter: one more
\* in the same direction, one after the other direction or none, and nothing
\* left of the fifth.
CountAfterWrap(dir) ==
    LET n == IF wrap_count * dir > 0 THEN wrap_count + dir ELSE dir
    IN  IF n * dir >= 5 THEN 0 ELSE n

FifthWrap(dir) == wrap_count * dir = 4

\* The step is a wrap in direction dir that lands on item `to`.
WrapsTo(dir, to) ==
    /\ menu_sel' = to /\ selected' = to
    /\ wrap_count' = CountAfterWrap(dir)
    /\ rainbow' = IF FifthWrap(dir) THEN ~rainbow ELSE rainbow

VisibleItems ==
    { i \in 0..(menu_items - 1) :
        i >= menu_show_start_ /\ i < menu_show_start_ + WindowRows }

\* C22: an absolute action is honoured only if it names the row of an item
\* that is visible, and then the item of that row becomes the selection and
\* what get_menu_selection returns: every honoured action selects an item
\* that was on the screen.
C22_AbsoluteSelectsVisibleItem ==
    [][MenuKeyAbs => menu_sel' \in VisibleItems /\ selected' = menu_sel']_vars

\* What get_menu_selection does test: the action is at or after the first
\* item's row and before header_count + item_count, and the selection is the
\* action moved by the scroll offset and wrapped once.
C22_AbsoluteWithinItemCount ==
    [][MenuKeyAbs =>
         \E action \in header_items..(header_items + item_count - 1) :
            LET sel == action + menu_show_start_ - header_items
            IN  /\ selected' = IF sel >= menu_items THEN sel - menu_items ELSE sel
                /\ menu_sel' = selected']_vars

(***************************************************************************)
(* C23  A timeout of the key read in get_menu_selection.                   *)
(***************************************************************************)
\* C23: a timeout ends the menu and returns only if text has never been
\* visible; once text has been visible a timeout changes nothing of the menu
\* and the loop waits again: it selects nothing and does not leave the menu.
C23_TimeoutIgnoredOnceTextShown ==
    /\ [][MenuTimeout /\ show_text_ever
            => UNCHANGED << menust, ui_pc, update_waiting >>]_vars
    /\ [][MenuTimeout /\ ~show_text_ever => ui_pc' = "idle" /\ ~show_menu']_vars
    /\ [][MenuTimeout /\ ui_pc' # "menu" => ~show_text_ever]_vars

\* A timeout has passed over a menu whose text was shown, and the menu waits.
C23_Witness ==
    ui_pc = "menu" /\ show_menu /\ show_text_ever /\ now > 0 /\ menu_sel > 0

\* ---------------------------------------------------------------------------
\* ShowFile: the pager.

\* The pages of the longest file shown.
MaxPages == 3

\* The files: empty lines that fill k pages or k pages and one line more,
\* and one letter or a page and one letter without a newline.
PagerFiles ==
    { [i \in 1..n |-> NL] :
        n \in { k * (text_rows_ - 1) + d : k \in 0..(MaxPages - 1), d \in {0, 1} } }
        \cup { [i \in 1..n |-> "a"] : n \in {1, (text_rows_ - 1) * text_cols_ + 1} }

VIEWER == "file_viewer_text"

\* while (text_row_ < text_rows_ - 1) PutChar('\n')
RECURSIVE FillPage(_)
FillPage(s) ==
    IF s.row < text_rows_ - 1 THEN FillPage(PutCharTo(NL, s)) ELSE s

\* The loop of ShowFile(fp) from one prompt to the next: getc until the end
\* of the file or until the cursor is at the start of the last row.
RECURSIVE ReadPage(_, _, _)
ReadPage(file, pos, s) ==
    IF pos >= Len(file)
    THEN [pos |-> pos, eof |-> TRUE, s |-> FillPage(s)]
    ELSE LET s1 == PutCharTo(file[pos + 1], s)
         IN  IF s1.col = 0 /\ s1.row >= text_rows_ - 1
             THEN [pos |-> pos + 1, eof |-> FALSE, s |-> s1]
             ELSE ReadPage(file, pos + 1, s1)

\* offsets.push_back(ftell(fp))
PushOffset_None(offsets, pos) == offsets
PushOffset(offsets, pos) == Append(offsets, pos)

\* ClearText(), the page read from pos, the prompt and Redraw(); then the
\* pager waits for a key.
ShowPage(file, pos, offsets, old) ==
    LET r == ReadPage(file, pos,
                 [row |-> 0, col |-> 0, top |-> 1, buf |-> ClearedRows(bufs[VIEWER]),
                  used |-> {}, breaks |-> 0, overwritten |-> 0, advanced |-> 0,
                  fits |-> ui_hist.fits /\ ClearTextFits(VIEWER),
                  rows |-> BufRows(VIEWER), cols |-> BufCols(VIEWER)])
        p == IF log_text_rows_ > 0 /\ log_text_cols_ > 0
             THEN PrintTo(PrintString("prompt"), r.s) ELSE r.s
    IN  /\ text_' = VIEWER
        /\ text_row_' = p.row
        /\ text_col_' = p.col
        /\ text_top_' = p.top
        /\ bufs' = [bufs EXCEPT ![VIEWER] = p.buf]
        /\ ui_hist' = [ui_hist EXCEPT !.fits = p.fits]
        /\ sf_old' = [old EXCEPT !.file = file, !.pos = r.pos, !.eof = r.eof,
                                 !.offsets = offsets, !.start = pos]
        /\ update_screen_locked
        /\ ui_pc' = "sf_prompt"

\* What the pager leaves alone.
PagerFrame ==
    UNCHANGED << recovery, show_text, show_text_ever, dlg, updateMutex,
                 pagesIdentical, prog, anim, stagebar, menust, ui_op, ui_calls,
                 rt_pc, now >>

\* ShowFile(filename), the file opens: the buffer and the cursor are saved,
\* the viewer is swapped in and cleared, ShowFile(fp) sets the background and
\* shows the first page.
PagerOpen ==
    /\ ui_pc = "idle"
    /\ ui_hist.fits
    /\ \E file \in PagerFiles :
          ShowPage(file, 0, PushOffset(<<>>, 0),
                   [sf_old EXCEPT !.text = text_, !.col = text_col_,
                                  !.row = text_row_, !.top = text_top_])
    /\ currentIcon' = "VIEWING_LOG"
    /\ PagerFrame

\* ShowFile(filename), fopen fails: Print("  Unable to open %s: %s\n") and
\* return.
PagerOpenFails ==
    /\ ui_pc = "idle"
    /\ ui_hist.fits
    /\ ui_calls < MaxPrints
    /\ ui_calls' = ui_calls + 1
    /\ PrintV(PrintString("unable"))
    /\ UNCHANGED << recovery, show_text, show_text_ever, scr, updateMutex, pagesIdentical, prog,
                    anim, stagebar, menust, ui_pc, ui_op, sf_old, rt_pc, now >>

\* ShowFile(fp) returns, fclose, and ShowFile(filename) puts text_ and the
\* cursor back.
PagerReturn ==
    /\ text_' = sf_old.text
    /\ text_col_' = sf_old.col
    /\ text_row_' = sf_old.row
    /\ text_top_' = sf_old.top
    /\ sf_old' = NoOld
    /\ ui_pc' = "idle"
    /\ UNCHANGED << bufs, ui_hist, currentIcon >>
    /\ no_update

\* key == KEY_POWER || key == KEY_ENTER
PagerKeyPower ==
    /\ ui_pc = "sf_prompt"
    /\ ui_hist.fits
    /\ PagerReturn
    /\ PagerFrame

\* key == KEY_UP || key == KEY_VOLUMEUP: on the first page the prompt waits
\* again; else offsets.pop_back(), fseek(fp, offsets.back()) and the page.
PagerKeyUp ==
    /\ ui_pc = "sf_prompt"
    /\ ui_hist.fits
    /\ IF Len(sf_old.offsets) <= 1
       THEN UNCHANGED << textst, sf_old, ui_hist, ui_pc >> /\ no_update
       ELSE LET popped == SubSeq(sf_old.offsets, 1, Len(sf_old.offsets) - 1)
            IN  ShowPage(sf_old.file, popped[Len(popped)], popped, sf_old)
    /\ UNCHANGED currentIcon
    /\ PagerFrame

\* Any other key: return if feof(fp), else offsets.push_back(ftell(fp)) and
\* the next page.
PagerKeyOther ==
    /\ ui_pc = "sf_prompt"
    /\ ui_hist.fits
    /\ IF sf_old.eof
       THEN PagerReturn
       ELSE /\ ShowPage(sf_old.file, sf_old.pos,
                        PushOffset(sf_old.offsets, sf_old.pos), sf_old)
            /\ UNCHANGED currentIcon
    /\ PagerFrame

InitPager == RecoveryIdle /\ UiFresh(FALSE, 0, 0, Frames)

NextPager ==
    \/ TextPrint \/ TextClear
    \/ PagerOpen \/ PagerOpenFails
    \/ PagerKeyPower \/ PagerKeyUp \/ PagerKeyOther

SpecPager == InitPager /\ [][NextPager]_vars

\* Where the page that starts at pos ends: the position of fp at the prompt.
PageEnd(file, pos) ==
    ReadPage(file, pos,
        [row |-> 0, col |-> 0, top |-> 1, buf |-> [r \in 0..(text_rows_ - 1) |-> <<>>],
         fits |-> TRUE, rows |-> text_rows_, cols |-> text_cols_ + 1]).pos

\* The pager is at its prompt.
AtPrompt == ui_pc = "sf_prompt"

\* The offsets are the starts of the pages from the first to the one shown.
OffsetsArePageStarts ==
    LET offsets == sf_old.offsets
    IN  /\ Len(offsets) >= 1
        /\ offsets[1] = 0
        /\ \A j \in 1..(Len(offsets) - 1) :
              offsets[j + 1] = PageEnd(sf_old.file, offsets[j])
        /\ offsets[Len(offsets)] = sf_old.start
        /\ sf_old.pos = PageEnd(sf_old.file, sf_old.start)

\* C24: at the prompt of the pager the offsets are never empty, they are the
\* starts of the pages from the first one to the one on the screen, and the
\* top is the start of the page on the screen.  Up on a later page drops the
\* top and shows the page before; up on the first page changes nothing and
\* the pager stays at its prompt; another key returns after the end of the
\* file was read and else pushes the position and shows the page that starts
\* there; power or enter returns.
C24_OffsetsTrackPages ==
    /\ [](AtPrompt => OffsetsArePageStarts)
    /\ [][(PagerKeyUp /\ Len(sf_old.offsets) > 1)
            => /\ AtPrompt'
               /\ Len(sf_old'.offsets) = Len(sf_old.offsets) - 1
               /\ sf_old'.start = sf_old.offsets[Len(sf_old.offsets) - 1]]_vars
    /\ [][(PagerKeyUp /\ Len(sf_old.offsets) = 1)
            => AtPrompt' /\ sf_old' = sf_old /\ textst' = textst]_vars
    /\ [][(PagerKeyOther /\ ~sf_old.eof)
            => /\ AtPrompt'
               /\ sf_old'.offsets = Append(sf_old.offsets, sf_old.pos)
               /\ sf_old'.start = sf_old.pos]_vars
    /\ [][(PagerKeyOther /\ sf_old.eof) => ui_pc' = "idle"]_vars
    /\ [][PagerKeyPower => ui_pc' = "idle"]_vars

\* The third and last page of a file is on the screen.
C24_Witness ==
    /\ AtPrompt
    /\ Len(sf_old.offsets) = 3
    /\ sf_old.eof
    /\ sf_old.start > 0
    /\ sf_old.pos = Len(sf_old.file)

\* The log ring buffer.
LogText == bufs["text"]

\* ShowFile(filename) is between its entry and its return.
Viewing == ui_pc = "sf_prompt"

\* C25: a call of ShowFile(filename) leaves text_, the cursor and the rows of
\* the log as they were before it: if the file cannot be opened nothing of
\* the text changes; if it opens the buffer and the cursor of the entry are
\* what the return puts back, and no step from the entry to the return
\* changes the log.
C25_ShowFileRestoresText ==
    /\ [][PagerOpenFails => textst' = textst]_vars
    /\ [][PagerOpen => /\ sf_old'.text = text_
                       /\ << sf_old'.col, sf_old'.row, sf_old'.top >> = cursor
                       /\ LogText' = LogText]_vars
    /\ [][Viewing => LogText' = LogText /\ sf_old'.text \in {sf_old.text, NoOld.text}]_vars
    /\ [][(Viewing /\ ~Viewing')
            => /\ text_' = sf_old.text
               /\ cursor' = << sf_old.col, sf_old.row, sf_old.top >>]_vars

\* ---------------------------------------------------------------------------
\* The text buffers on screens of any geometry.

\* A log font smaller than the menu font: the log has more rows and columns
\* than the viewer and the menu.
SmallLogFont ==
    [ log_text_rows_ |-> LogRows + 1, log_text_cols_ |-> LogCols + 1,
      text_rows_ |-> LogRows, text_cols_ |-> LogCols ]

Screens == { SmallScreen, SmallLogFont }

\* PutChar(ch)
ScreenPutChar ==
    /\ ui_pc = "idle"
    /\ ui_hist.fits
    /\ ui_calls < MaxPrints
    /\ ui_calls' = ui_calls + 1
    /\ \E ch \in {"a", NL} : PutChar(ch)
    /\ UNCHANGED << recovery, show_text, show_text_ever, scr, updateMutex, pagesIdentical, prog,
                    anim, stagebar, menust, ui_pc, ui_op, sf_old, rt_pc, now >>

InitScreens ==
    \E scrn \in Screens : RecoveryIdleOn(scrn) /\ UiFresh(FALSE, 0, 0, Frames)

NextScreens == NextPager \/ ScreenPutChar

SpecScreens == InitScreens /\ [][NextScreens]_vars

\* C30: every write of PrintV, PutChar and ClearText so far, to the log and
\* to the viewer while it is swapped in, had its row inside the rows and its
\* column inside the columns allocated for the buffer written.
C30_WritesInsideAllocation == ui_hist.fits

\* ---------------------------------------------------------------------------
\* get_args: the blob when the arguments do not fit.

\* The arguments a blob decodes to are arguments that were resolved.
DecodesToArgs(rec) ==
    \A i \in 1..Len(Decode(rec)) : \E j \in 1..Len(args) : Decode(rec)[i] = args[j]

\* C26: when the joined arguments do not fit the recovery field, the record
\* get_args writes has a recovery field shorter than the field's size, so that
\* its terminator fits, the status and the stage that were read, and a blob
\* of complete tokens: it ends with a newline and each argument it decodes to
\* is one of the resolved arguments.
C26_OverflowKeepsTokensWhole ==
    (Resolved /\ ~Fits(args)) =>
        /\ Len(hist.last_write.recovery) <= RecoverySize - 1
        /\ hist.last_write.status = hist.boot_read.status
        /\ hist.last_write.stage = hist.boot_read.stage
        /\ hist.last_write.recovery[Len(hist.last_write.recovery)] = NL
        /\ DecodesToArgs(hist.last_write.recovery)

\* The part of it that the code keeps: the size and the other fields.
C26_OverflowStaysInField ==
    (Resolved /\ ~Fits(args)) =>
        /\ Len(hist.last_write.recovery) = RecoverySize - 1
        /\ hist.last_write.status = hist.boot_read.status
        /\ hist.last_write.stage = hist.boot_read.stage
        /\ hist.last_write.recovery = strlcpy(Blob(args), RecoverySize)

\* ---------------------------------------------------------------------------
\* A control block that can be neither read nor written.

\* Recovery starts without arguments on a device whose control block holds
\* anything and cannot be read or written.
\* Command files with --update_package and with --just_exit.
UnreadableCommandFiles ==
    { FlagArg("u", <<"p">>) \o <<NL>>, Flag("x") \o <<NL>> }

InitUnreadable ==
    /\ have_oemlock \in BOOLEAN
    /\ misc_ok = FALSE
    /\ cache_ok \in BOOLEAN
    /\ session = 1
    /\ proc_args = <<>>
    /\ bcb \in {ZeroBoot, BootRecovery(<< Flag("w") >>)}
    /\ command_file \in CommandFileSet \cup UnreadableCommandFiles
    /\ files = NoFiles
    /\ cache_ok \/ command_file = NULL
    /\ hist = NoHist
    /\ Fresh
    /\ screen = SmallScreen
    /\ UiFresh(FALSE, 0, 0, Frames)

\* One session of main: --oemunlock is only taken from the control block, so
\* the steps of the OEM unlock are not among them.
NextUnreadable ==
    \/ GetArgs
    \/ DispatchInstall \/ MainInstallEnd
    \/ DispatchWipeData \/ DispatchWipeCache \/ DispatchWipeMedia
    \/ DispatchSideload \/ MainSideloadEnd
    \/ DispatchNone \/ DispatchJustExit
    \/ MainWipeDone
    \/ EraseSave \/ EraseFormat \/ EraseRestore
    \/ YesNo
    \/ WipeDataConfirm \/ WipeDataPre \/ WipeDataData \/ WipeDataCache \/ WipeDataCheck
    \/ WipeCacheConfirm \/ WipeCacheGo
    \/ WipeMediaGo \/ WipeMediaPost
    \/ WipeSystem
    \/ MainPost \/ MainHeadless
    \/ PromptFinish \/ PromptNoAction \/ PromptViewLogs \/ PromptReboot
    \/ PromptWipeData \/ PromptWipeCache \/ PromptWiped \/ PromptWipeSystem
    \/ PromptApplyNone \/ PromptApplySideload \/ PromptApplyStorage
    \/ PromptInstallEnd \/ PromptApplyEnd
    \/ MainFinish

SpecUnreadable == InitUnreadable /\ [][NextUnreadable]_vars

\* main has come to the end of the session: it asked for the reboot or the
\* shutdown, or it pauses for ever in headless mode.
SessionEnded == pc \in {"reboot", "paused"}

\* finish_recovery used the FILE* that fopen_path could not open: /cache
\* cannot be mounted and there is a locale to save.
LocaleCrash == pc = "crashed" /\ locale /\ ~cache_ok

\* C27: with a control block that cannot be read or written, get_args has an
\* all-zero record, takes no argument from it and takes its arguments from
\* the command file whenever that can be opened; no write changes the device;
\* get_args returns and main goes on to dispatch what was resolved;
\* finish_recovery returns to main, which asks for the reboot, and to the
\* prompt, which shows its menu; and the only way the process ends before
\* that is the locale that cannot be saved, not the control block.
C27_BcbFailureIsSoft ==
    /\ [](Resolved => /\ hist.boot_read = ZeroBoot
                      /\ ~hist.from_bcb
                      /\ hist.from_file = (hist.file_read # NULL)
                      /\ hist.last_write.command = S_boot_recovery)
    /\ [][bcb' = bcb]_vars
    /\ [][GetArgs => (pc' = "dispatch")]_vars
    /\ [][MainFinish => (pc' = "reboot" \/ LocaleCrash')]_vars
    /\ [][PromptFinish => (pc' = "p_menu" \/ LocaleCrash')]_vars
    /\ [][MainHeadless => (pc' = "paused" \/ LocaleCrash')]_vars
    /\ [][(pc' = "crashed") => LocaleCrash']_vars

\* A session that took --wipe_data from the command file has ended with the
\* reboot, the control block still holding what it held.
C27_Witness ==
    /\ pc = "reboot"
    /\ hist.from_file
    /\ opts.should_wipe_data
    /\ bcb # ZeroBoot

\* ---------------------------------------------------------------------------
\* erase_volume: what it returns and how it leaves the screen.

\* C28: erase_volume returns whether format_volume returned 0, whatever was
\* saved from /cache before and whether /cache can be mounted to write it
\* back, and when it returns the background is NONE and the progress type is
\* EMPTY.
C28_EraseReturnsFormatResult ==
    /\ [][EraseFormat => (ev'.result \in BOOLEAN /\ pc' = "ev_restore")]_vars
    /\ [][EraseRestore => /\ ret' = ev.result
                          /\ currentIcon' = "NONE"
                          /\ progressBarType' = "EMPTY"
                          /\ pc' # "ev_restore"]_vars

\* erase_volume has returned false to wipe_data from the non-forced erase of
\* /cache: the format failed and left a /cache that cannot be mounted, so the
\* saved logs could not be written back.
C28_Witness ==
    /\ pc = "wd_cache"
    /\ ~ret
    /\ ~cache_ok
    /\ hist.pre_files = NoFiles
    /\ currentIcon = "NONE"
    /\ progressBarType = "EMPTY"
    /\ update_waiting

\* ---------------------------------------------------------------------------
\* Redraw requests.

\* The render thread holds the lock, a redraw is requested, and its next
\* step is draw_screen_locked() and update_waiting = false.
DrawPass == rt_pc = "draw" /\ updateMutex = "render" /\ update_waiting

\* C29: a redraw that was requested is drawn: when update_waiting is set the
\* render thread comes, under fair scheduling, to a pass in which it holds
\* the lock and draws the whole screen; update_waiting goes back to false
\* only in the step of the render thread that drew with the request pending,
\* before it gives the lock back; and while the render thread holds the lock
\* no call changes the request, the background or the progress.
C29_NoRedrawLost ==
    /\ update_waiting ~> DrawPass
    /\ [][(update_waiting /\ ~update_waiting') => (DrawPass /\ RenderDraw)]_vars
    /\ [][(updateMutex = "render" /\ rt_pc' = rt_pc)
            => UNCHANGED << update_waiting, currentIcon, prog >>]_vars

\* The render thread is about to draw what the second call of the main
\* thread asked for.
C29_Witness == DrawPass /\ ui_calls = MaxCalls /\ ui_pc = "idle"

(***************************************************************************)
(* C31  The steps of one pass of wipe_data.                                *)
(***************************************************************************)
WipeOrder == << "pre", "data", "cache", "post" >>

\* erase_volume is running on behalf of wipe_data.
WipeErasing == pc \in {"ev_save", "ev_format", "ev_restore"} /\ wd.attempts > 0

\* C31: the steps a pass of wipe_data has started are a prefix of pre-wipe
\* hook, erase /data, erase /cache, post-wipe hook; every step that has a
\* successor returned success; the volume being erased is the one of the
\* last step started; and when the pass is over it has succeeded exactly
\* when all four steps ran and the last one succeeded as well.
C31_StepsInOrder ==
    /\ wd.steps = SubSeq(WipeOrder, 1, Len(wd.steps))
    /\ Len(wd.oks) \in {Len(wd.steps) - 1, Len(wd.steps)} \cap Nat
    /\ \A i \in 1..Len(wd.oks) : i < Len(wd.steps) => wd.oks[i]
    /\ WipeErasing =>
          /\ Len(wd.oks) = Len(wd.steps) - 1
          /\ wd.steps[Len(wd.steps)] \in {"data", "cache"}
          /\ ev.volume = (IF wd.steps[Len(wd.steps)] = "data" THEN "/data" ELSE CACHE_ROOT)
    /\ pc = "wd_check" =>
          /\ Len(wd.oks) = Len(wd.steps)
          /\ wd.success <=> (wd.steps = WipeOrder /\ \A i \in 1..4 : wd.oks[i])

\* C31 witness: a pass has run all four steps and all succeeded.
C31_Witness ==
    pc = "wd_check" /\ wd.steps = WipeOrder /\ wd.success

\* A pass stopped at the erase of /data: /cache was not erased and the
\* post-wipe hook was not called.
C31_WitnessStopped ==
    pc = "wd_check" /\ wd.steps = << "pre", "data" >> /\ wd.oks = << TRUE, FALSE >>

(***************************************************************************)
(* C32  A wipe whose question was not answered with Yes.                   *)
(***************************************************************************)
\* A wipe function has asked its question and yes_no has returned.
WipeAsked ==
    \/ pc = "wd_confirm" /\ wd.should_confirm
    \/ pc \in {"wc_confirm", "ws_confirm"}

C32_WitnessData == pc = "wd_confirm" /\ wd.should_confirm /\ ~ret /\ ~modified_flash

C32_WitnessCache == pc = "wc_confirm" /\ ~ret /\ ~modified_flash

(***************************************************************************)
(* C33  The session's temporary log in /cache/recovery/log.                *)
(***************************************************************************)
\* How often b occurs in s.
Occurrences(s, b) == Cardinality({ i \in 1..Len(s) : s[i] = b })

\* C33: no record of this session's temporary log is in
\* /cache/recovery/log more than once.
C33_SessionLogAtMostOnce ==
    \A i \in 1..tmplog_len :
        Occurrences(files[LOG_FILE], TmpLog(session, tmplog_len)[i]) <= 1

\* The part of the claim that holds: between cache erases the append
\* resumes where the last one ended, so tmplog_offset never exceeds the
\* length of the temporary log and a copy_logs that follows another
\* without an erase in between adds each record once.
C33_OffsetWithinLog == tmplog_offset <= tmplog_len

\* A non-forced erase of /cache wrote the log back and copy_logs appended
\* the temporary log from offset 0 behind it.
C33_Duplicated ==
    /\ files[LOG_FILE] # NoFile
    /\ Occurrences(files[LOG_FILE], TmpLog(session, 1)[1]) = 2

(***************************************************************************)
(* C34  One rotation per session.                                          *)
(***************************************************************************)
\* A step moves the content of a generation of last_log or last_kmsg to the
\* next one.
Shifted ==
    \E base \in {LAST_LOG_FILE, LAST_KMSG_FILE}, i \in 0..(KEEP_LOG_COUNT - 1) :
        /\ files[Gen(base, i)] # NoFile
        /\ files'[Gen(base, i + 1)] = files[Gen(base, i)]
        /\ files'[Gen(base, i + 1)] # files[Gen(base, i + 1)]

\* C34: within a session a step shifts generations only while the logs
\* have not been rotated, and it marks them rotated; the mark stays for the
\* rest of the session.
C34_RotatedOncePerSession ==
    /\ [][(session' = session /\ Shifted) => (~rotated /\ rotated')]_vars
    /\ [][(session' = session /\ rotated) => rotated']_vars

\* C34 witness: in the first session copy_logs has run for an erase and again
\* for the finish_recovery that follows it, and the older generations are
\* one position up from where the session found them.
C34_Witness ==
    /\ session = 1 /\ rotated /\ modified_flash
    /\ pc = "p_menu" /\ hist.prompts = 2
    /\ files[Gen(LAST_LOG_FILE, 0)] = TmpLog(1, 2)
    /\ files[Gen(LAST_LOG_FILE, 1)] = OldFiles[Gen(LAST_LOG_FILE, 0)]
    /\ files[Gen(LAST_LOG_FILE, 2)] = OldFiles[Gen(LAST_LOG_FILE, 1)]
    /\ files[Gen(LAST_KMSG_FILE, 1)] = OldFiles[Gen(LAST_KMSG_FILE, 0)]

(***************************************************************************)
(* C35  rotate_logs on any set of generations.                             *)
(***************************************************************************)
\* The generations of last_kmsg that are tried with every set of
\* generations of last_log.
KmsgSubsets ==
    { {}, {0}, {KEEP_LOG_COUNT}, {KEEP_LOG_COUNT - 1, KEEP_LOG_COUNT}, 0..KEEP_LOG_COUNT }

\* A log directory with the generations S of last_log and T of last_kmsg,
\* each with a content of its own.
GenFiles(S, T) ==
    [n \in LogNames |->
        IF n[1] = LAST_LOG_FILE /\ n[2] \in S THEN << 100 + n[2] >>
        ELSE IF n[1] = LAST_KMSG_FILE /\ n[2] \in T THEN << 200 + n[2] >>
        ELSE IF n = LOG_FILE THEN << 0 >>
        ELSE NoFile]

InitRotate ==
    /\ have_oemlock = FALSE
    /\ misc_ok = TRUE
    /\ cache_ok = TRUE
    /\ session = 1
    /\ proc_args = <<>>
    /\ bcb = ZeroBoot
    /\ command_file = NULL
    /\ \E S \in SUBSET (0..KEEP_LOG_COUNT), T \in KmsgSubsets : files = GenFiles(S, T)
    /\ hist = NoHist
    /\ Fresh
    /\ screen = SmallScreen
    /\ UiFresh(FALSE, 0, 0, Frames)

\* rotate_logs(KEEP_LOG_COUNT), called once more after it has rotated.
RotateLogs ==
    /\ pc \in {"start", "rotated"}
    /\ LET a == rotate_logs([files |-> files, rotated |-> rotated,
                             tmplog_offset |-> tmplog_offset], KEEP_LOG_COUNT)
       IN  /\ files' = a.files
           /\ rotated' = a.rotated
    /\ hist' = [hist EXCEPT !.pre_files = files]
    /\ pc' = IF pc = "start" THEN "rotated" ELSE "again"
    /\ UNCHANGED << build, ui, scr, bcb, command_file, cache_ok, session, stack, input,
                    modified_flash, tmplog_offset, tmplog_len, tmp_install, status,
                    show_text, ev, wd, ret, after >>

NextRotate == RotateLogs

SpecRotate == InitRotate /\ [][NextRotate]_vars

DispatchFlags ==
    << FlagArg("u", <<"p">>), Flag("w"), Flag("c"), Flag("m"), Flag("s"), Flag("x"),
       Flag("h") >>

\* The flags of DispatchFlags at the positions S, in order.
RECURSIVE PickFlags(_, _)
PickFlags(S, i) ==
    IF i > Len(DispatchFlags) THEN <<>>
    ELSE (IF i \in S THEN << DispatchFlags[i] >> ELSE <<>>) \o PickFlags(S, i + 1)

\* Control blocks that ask for the OEM unlock, alone or with one flag.
UnlockBoots ==
    { BootRecovery(<< S_oemunlock >> \o extra) :
        extra \in { <<>>, << Flag("w") >>, << Flag("c") >>, << Flag("x") >> } }

InitDispatch ==
    /\ have_oemlock \in BOOLEAN
    /\ misc_ok = TRUE
    /\ cache_ok = TRUE
    /\ session = 1
    /\ \/ /\ proc_args \in { PickFlags(S, 1) : S \in SUBSET (1..Len(DispatchFlags)) }
          /\ bcb = ZeroBoot
       \/ /\ proc_args = <<>>
          /\ bcb \in UnlockBoots
    /\ command_file = NULL
    /\ files = NoFiles
    /\ hist = NoHist
    /\ Fresh
    /\ screen = SmallScreen
    /\ UiFresh(FALSE, 0, 0, Frames)

NextDispatch ==
    \/ GetArgs
    \/ DispatchOem \/ MainOemData \/ MainOemEnd
    \/ DispatchInstall \/ MainInstallEnd
    \/ DispatchWipeData \/ DispatchWipeCache \/ DispatchWipeMedia
    \/ DispatchSideload \/ MainSideloadEnd
    \/ DispatchNone \/ DispatchJustExit
    \/ MainWipeDone
    \/ EraseSave \/ EraseFormat \/ EraseRestore
    \/ WipeDataConfirm \/ WipeDataPre \/ WipeDataData \/ WipeDataCache \/ WipeDataCheck
    \/ WipeCacheGo
    \/ WipeMediaGo \/ WipeMediaPost
    \/ MainPost \/ MainHeadless \/ MainFinish

SpecDispatch == InitDispatch /\ [][NextDispatch]_vars

\* The flags that ask for an operation are absent.
NoOperationFlag ==
    /\ opts.update_package = NULL /\ ~opts.should_wipe_data /\ ~opts.should_wipe_cache
    /\ ~opts.should_wipe_media /\ ~opts.sideload

\* main takes the branch of the first flag set, in the order update_package,
\* wipe_data, wipe_cache, wipe_media, sideload, none; it is at the chain
\* once in a session.
PriorityOfFlags ==
    /\ [][(pc = "dispatch" /\ opts.update_package # NULL) => (pc' = "m_installing")]_vars
    /\ [][(pc = "dispatch" /\ opts.update_package = NULL /\ opts.should_wipe_data) =>
             (pc' = "wd_confirm" /\ ~wd'.should_confirm
                /\ wd'.force = opts.should_wipe_media)]_vars
    /\ [][(pc = "dispatch" /\ opts.update_package = NULL /\ ~opts.should_wipe_data
             /\ opts.should_wipe_cache) => (pc' = "wc_go")]_vars
    /\ [][(pc = "dispatch" /\ opts.update_package = NULL /\ ~opts.should_wipe_data
             /\ ~opts.should_wipe_cache /\ opts.should_wipe_media) => (pc' = "wm_go")]_vars
    /\ [][(pc = "dispatch" /\ NoOperationFlag /\ opts.sideload) =>
             (pc' = "m_sideloading")]_vars

\* Without an operation flag: status None, text shown and the prompt, or,
\* with --just_exit, nothing and status Success.
NoFlagGoesToPrompt ==
    /\ [][(pc = "dispatch" /\ NoOperationFlag /\ ~opts.just_exit) =>
             (pc' = "m_post" /\ status' = "NONE" /\ show_text')]_vars
    /\ [][(pc = "m_post" /\ NoOperationFlag /\ ~opts.just_exit) => (pc' = "p_finish")]_vars

\* --just_exit and no other argument: nothing runs and the session goes to
\* its end with status Success.
JustExitAlone ==
    /\ [][(pc = "dispatch" /\ args = << Flag("x") >>) =>
             (pc' = "m_post" /\ status = "SUCCESS"
                /\ UNCHANGED << status, show_text, modified_flash, disk >>)]_vars
    /\ [][(pc = "m_post" /\ args = << Flag("x") >>) =>
             (pc' = "m_finish" /\ status = "SUCCESS")]_vars
    /\ [][(pc = "m_finish" /\ args = << Flag("x") >>) =>
             (pc' = "reboot" /\ status' = "SUCCESS")]_vars

\* main is at the chain once in a session.
AtChainOnce == [][(pc' = "dispatch") => (pc = "start")]_vars

\* The statement as it was made.
C36_PriorityOfFlags ==
    /\ AtChainOnce
    /\ PriorityOfFlags
    /\ NoFlagGoesToPrompt
    /\ JustExitAlone

Unlock == have_oemlock /\ oem_lock

\* C36: main is at its chain once in a session and takes one branch.  In a
\* build with the OEM lock an unlock asked for in the control block comes
\* first (the forced erase of /data), whatever flags are given; otherwise
\* the branch is that of the first flag set in the order update_package,
\* wipe_data, wipe_cache, wipe_media, sideload.  With none of them and no
\* --just_exit the status is None, the text is shown, and the prompt is
\* entered unless --headless was given, which leads to headless mode; with
\* --just_exit as the only argument nothing runs and main goes through
\* finish_recovery to the reboot with status Success.
C36_PriorityAfterUnlock ==
    /\ AtChainOnce
    /\ [][(pc = "dispatch" /\ Unlock) =>
             (pc' = "ev_save" /\ ev'.volume = "/data" /\ ev'.force)]_vars
    /\ [][(pc = "dispatch" /\ ~Unlock /\ opts.update_package # NULL) =>
             (pc' = "m_installing")]_vars
    /\ [][(pc = "dispatch" /\ ~Unlock /\ opts.update_package = NULL
             /\ opts.should_wipe_data) =>
             (pc' = "wd_confirm" /\ ~wd'.should_confirm
                /\ wd'.force = opts.should_wipe_media)]_vars
    /\ [][(pc = "dispatch" /\ ~Unlock /\ opts.update_package = NULL
             /\ ~opts.should_wipe_data /\ opts.should_wipe_cache) =>
             (pc' = "wc_go")]_vars
    /\ [][(pc = "dispatch" /\ ~Unlock /\ opts.update_package = NULL
             /\ ~opts.should_wipe_data /\ ~opts.should_wipe_cache
             /\ opts.should_wipe_media) => (pc' = "wm_go")]_vars
    /\ [][(pc = "dispatch" /\ ~Unlock /\ NoOperationFlag /\ opts.sideload) =>
             (pc' = "m_sideloading")]_vars
    /\ [][(pc = "dispatch" /\ ~Unlock /\ NoOperationFlag /\ ~opts.just_exit) =>
             (pc' = "m_post" /\ status' = "NONE" /\ show_text')]_vars
    /\ [][(pc = "m_post" /\ ~Unlock /\ NoOperationFlag /\ ~opts.just_exit) =>
             (pc' = IF opts.headless THEN "m_headless" ELSE "p_finish")]_vars
    /\ [][(pc = "dispatch" /\ ~Unlock /\ args = << Flag("x") >>) =>
             (pc' = "m_post" /\ status = "SUCCESS"
                /\ UNCHANGED << status, show_text, modified_flash, disk >>)]_vars
    /\ [][(pc = "m_post" /\ ~Unlock /\ args = << Flag("x") >>) =>
             (pc' = "m_finish" /\ status = "SUCCESS")]_vars
    /\ [][(pc = "m_finish" /\ ~Unlock /\ args = << Flag("x") >>) =>
             (pc' = "reboot" /\ status' = "SUCCESS")]_vars

\* C36 witness: started with --update_package, --wipe_data, --wipe_cache,
\* --wipe_media and --sideload together, main is installing the package.
C36_Witness ==
    /\ pc = "m_installing"
    /\ opts.should_wipe_data /\ opts.should_wipe_cache /\ opts.should_wipe_media
    /\ opts.sideload

\* --wipe_cache and --wipe_media without --wipe_data: the cache is wiped.
C36_WitnessCache ==
    pc = "wc_go" /\ opts.should_wipe_media /\ opts.sideload /\ ~opts.should_wipe_data

\* No flag at all: main is in the prompt with status None and the text shown.
C36_WitnessNone ==
    pc = "p_finish" /\ args = <<>> /\ status = "NONE" /\ show_text

\* An unlock and --wipe_data in the control block of a build with the OEM
\* lock: main is in the forced erase of /data, not in wipe_data.
C36_WitnessUnlock ==
    /\ have_oemlock /\ oem_lock /\ opts.should_wipe_data
    /\ pc = "ev_format" /\ ev.volume = "/data" /\ wd = NoWipe

(***************************************************************************)
(* C37  get_menu_selection with what it returns: ui_op.s is the kind of    *)
(* value returned and ui_op.n the index when an item was invoked;          *)
(* ui_calls counts the keys that lead to no action.                        *)
(***************************************************************************)
MaxNoAction == 1

Returned(kind, index) == [NoOp EXCEPT !.name = "get_menu_selection", !.s = kind, !.n = index]

\* HandleMenuKey gives kNoAction, or an action >= 0 outside the items, which
\* is made kNoAction: case Device::kNoAction: break;
MenuKeyNone ==
    /\ ui_pc = "menu"
    /\ ui_calls < MaxNoAction
    /\ ui_calls' = ui_calls + 1
    /\ UNCHANGED << recovery, show_text, show_text_ever, scr, updateMutex, pagesIdentical,
                    prog, anim, stagebar, textst, menust, ui_pc, ui_op, sf_old, rt_pc,
                    now, ui_hist, update_waiting, progressCondition >>

\* case Device::kInvokeItem: chosen_item = selected; the loop ends, EndMenu,
\* return chosen_item.  After an absolute selection the action is
\* kInvokeItem at once.
MenuInvoke ==
    /\ ui_pc \in {"menu", "chosen"}
    /\ EndMenu
    /\ ui_pc' = "idle"
    /\ ui_op' = Returned("kInvokeItem", selected)
    /\ UNCHANGED << item_count, selected >>
    /\ MenuFrame

\* case Device::kGoBack, kGoHome, kRefresh: the loop ends, EndMenu.
MenuLeave ==
    /\ ui_pc = "menu"
    /\ EndMenu
    /\ ui_pc' = "idle"
    /\ \E kind \in {"kGoBack", "kGoHome", "kRefresh"} : ui_op' = Returned(kind, 0)
    /\ UNCHANGED << item_count, selected >>
    /\ MenuFrame

\* key == -2: return Device::kNoAction; key == -6: return Device::kRefresh;
\* the menu is left as it is.
MenuCancel ==
    /\ ui_pc = "menu"
    /\ ui_pc' = "idle"
    /\ \E kind \in {"kNoAction", "kRefresh"} : ui_op' = Returned(kind, 0)
    /\ UNCHANGED << show_menu, menu_items, menu_sel, menu_show_start_, header_items,
                    wrap_count, rainbow, item_count, selected, update_waiting,
                    progressCondition >>
    /\ MenuFrame

NextSelect ==
    \/ MenuStart \/ MenuKeyUp \/ MenuKeyDown \/ MenuKeyAbs \/ MenuKeyNone
    \/ MenuInvoke \/ MenuLeave \/ MenuCancel

SpecSelect == InitMenu /\ [][NextSelect]_vars

\* C37: while get_menu_selection is in its loop, selected is the UI's
\* menu_sel; when an item is invoked the index returned is menu_sel; and a
\* highlight-up, a highlight-down or a no-action from the device leaves the
\* function in its loop.
C37_SelectedIsHighlighted ==
    /\ []((ui_pc \in {"menu", "chosen"}) => (selected = menu_sel))
    /\ []((ui_pc = "idle" /\ ui_op.s = "kInvokeItem") => (ui_op.n = menu_sel))
    /\ [][(MenuKeyUp \/ MenuKeyDown \/ MenuKeyNone) => (ui_pc' = "menu")]_vars

\* C37 witness: a highlight-up from the first item has wrapped to the last
\* one shown and that item was invoked.
C37_Witness ==
    /\ ui_pc = "idle" /\ ui_op.s = "kInvokeItem"
    /\ menu_items > 1 /\ ui_op.n = menu_items - 1 /\ wrap_count = -1

\* An absolute selection was made in a scrolled menu.
C37_WitnessAbsolute ==
    ui_pc = "chosen" /\ menu_show_start_ > 0 /\ selected = menu_sel

(***************************************************************************)
(* C38  What a redraw shows while a menu waits: choose_recovery_file, the  *)
(* list of files in get_menu_selection and the chosen file in ShowFile,    *)
(* in turns.                                                               *)
(***************************************************************************)
\* draw_screen_locked(): the layer it draws over the background.  With a
\* dialog it draws the dialog and returns; with the text shown and one of
\* three icons it draws the log and returns; only then comes the menu.
draw_screen_locked(icon, dialog, text, menu) ==
    IF dialog THEN "dialog"
    ELSE IF ~text THEN "background"
    ELSE IF icon \in {"ERASING", "INSTALLING_UPDATE", "VIEWING_LOG"} THEN "log"
    ELSE IF menu THEN "menu"
    ELSE "background"

\* The entries of choose_recovery_file: the logs that can be read, and "Back".
ChooseSizes == {2, 4}

\* choose_recovery_file: get_menu_selection(headers, entries, 1, 0, device)
\* under the one header "Select file to view".
ChooseStart ==
    /\ MenuStart
    /\ header_items' = 1
    /\ item_count' \in ChooseSizes

NextChoose ==
    \/ MenuShowText
    \/ ChooseStart \/ MenuKeyUp \/ MenuKeyDown \/ MenuChoose
    \/ PagerOpen \/ PagerKeyPower \/ PagerKeyUp \/ PagerKeyOther

SpecChoose == InitMenu /\ [][NextChoose]_vars

\* get_menu_selection waits for a key with the text visible and no dialog.
MenuWaits == ui_pc = "menu" /\ show_text /\ dialog_text = NoText

\* C38: whenever get_menu_selection waits for a key with the text visible
\* and no dialog, what draw_screen_locked draws is the menu.
C38_WaitingMenuIsDrawn ==
    MenuWaits => draw_screen_locked(currentIcon, FALSE, show_text, show_menu) = "menu"

\* The part that holds: before any file has been viewed the menu is drawn.
C38_DrawnUnlessLogIcon ==
    (MenuWaits /\ currentIcon \notin {"ERASING", "INSTALLING_UPDATE", "VIEWING_LOG"})
        => draw_screen_locked(currentIcon, FALSE, show_text, show_menu) = "menu"

\* The list of files is up again after ShowFile has returned, and a redraw
\* shows the log.
C38_MenuHiddenByLog ==
    /\ MenuWaits /\ show_menu /\ currentIcon = "VIEWING_LOG" /\ sf_old = NoOld
    /\ draw_screen_locked(currentIcon, FALSE, show_text, show_menu) = "log"

(***************************************************************************)
(* C39  The ranges of progress and of the animation frame.                 *)
(***************************************************************************)
\* The step is the body of a SetProgress on a bar that is not DETERMINATE
\* or whose scope has the size zero.
IdleSetProgress ==
    /\ MutatorRuns /\ ui_op.name = "SetProgress"
    /\ ~(progressBarType = "DETERMINATE" /\ progressScopeSize # 0)

\* C39: under every interleaving of SetProgressType, ShowProgress and
\* SetProgress with the render thread, progress is between 0 and 1 (PUnits
\* units) and installingFrame is between 0 and installing_frames - 1 when
\* there are frames; and SetProgress changes nothing of the screen and asks
\* for no redraw unless the bar is DETERMINATE with a scope size that is not
\* zero.
C39_ProgressAndFrameInRange ==
    /\ [](progress >= 0 /\ progress <= PUnits)
    /\ [](installing_frames > 0
            => installingFrame >= 0 /\ installingFrame < installing_frames)
    /\ [][IdleSetProgress
            => UNCHANGED << Drawn, update_waiting, progressCondition,
                            pagesIdentical, anim >>]_vars

\* A SetProgress above progress has just been ignored on a DETERMINATE bar
\* whose scope SetProgressType has emptied.
C39_Witness ==
    /\ ui_pc = "unlock" /\ ui_op.name = "SetProgress"
    /\ progressBarType = "DETERMINATE" /\ progressScopeSize = 0
    /\ Clamp(ui_op.n) > progress

\* The render thread has brought a timed scope to its end.
C39_WitnessFull ==
    progressBarType = "DETERMINATE" /\ progress = PUnits /\ rt_pc = "draw"

\* The animation has gone through its frames and started again.
C39_WitnessFrame ==
    installingFrame = 0 /\ rt_pc = "draw" /\ Animated

\* A SetProgress above 1 has been taken as 1.
C39_WitnessClamped ==
    /\ ui_pc = "unlock" /\ ui_op.name = "SetProgress" /\ ui_op.n > PUnits
    /\ progress = PUnits

====
